---- MODULE Spec2Model ----
(***************************************************************************)
(* susisu/use-debounced: the debounce engine useDebouncedPrim and the      *)
(* asynchronous hook useDebouncedAsyncCall built on it (reducer, in-flight *)
(* call bookkeeping), modelled as one state machine over a virtual clock.  *)
(* The later revision, in which the engine is a Debounce held by           *)
(* usePrimitiveDebounce, is modelled in the last two sections.             *)
(*                                                                         *)
(* Host facilities are modelled by what the code relies on:                *)
(*   - setTimeout/clearTimeout: a table of timers with remaining delays;   *)
(*     a timer whose delay has run out fires before time advances further; *)
(*   - attachActions(promise, onFulfilled, onRejected): the returned       *)
(*     cancel function marks the promise so that neither handler runs;     *)
(*   - useReducer's dispatch: actions are reduced in the order dispatched, *)
(*     a throwing reducer is recorded in `error`, and dispatching after    *)
(*     unmount changes nothing.                                            *)
(***************************************************************************)
EXTENDS Integers, FiniteSets, Sequences, TLC

\* ---------------------------------------------------------------- bounds
Wait == 2
MaxWaitVal == 3
MaxArg == 2
MaxVal == 1
MaxPromises == 2
MaxCount == 2
NumTimers == 3
MaxCallbacks == 2

Args == 1..MaxArg
Values == 0..MaxVal
TimerIds == 1..NumTimers
PromiseIds == 1..MaxPromises
Undefined == 0
Unset == -1
ClockCap == Wait + MaxWaitVal + 1

InitResult == 0

Min(a, b) == IF a < b THEN a ELSE b

\* ---------------------------------------------------------------- state
VARIABLES
  prim,                \* stateRef.current of useDebouncedPrim
  isUnmounted,         \* isUnmountedRef.current
  timers,              \* host timer table: id -> remaining delay, or Unset
  state,               \* reducer state of useDebouncedAsyncCall
  error,               \* the reducer threw "unexpected state"
  prevArgs,            \* prevArgsRef.current
  cancelAsyncCallRef,  \* cancelAsyncCallRef.current: id of the call it cancels
  promises,            \* unsettled promises returned by func
  reenter,             \* what func does while it runs: nothing, or a debounced call
  callbackRefs,        \* leadingCallbackRef, trailingCallbackRef, cancelCallbackRef .current
  leading, trailing, maxWait, shouldCall,   \* options
  obs                  \* observations of the last operation (history)

progVars == <<prim, isUnmounted, timers, state, error, prevArgs,
              cancelAsyncCallRef, promises, reenter, callbackRefs>>
optVars == <<leading, trailing, maxWait, shouldCall>>
vars == <<prim, isUnmounted, timers, state, error, prevArgs,
          cancelAsyncCallRef, promises, reenter, callbackRefs,
          leading, trailing, maxWait, shouldCall, obs>>

Standby == [type |-> "standby", timerId |-> Undefined, maxWaitTimerId |-> Undefined,
            args |-> Undefined, count |-> 0]

World == [prim |-> prim, isUnmounted |-> isUnmounted, timers |-> timers,
          state |-> state, error |-> error, prevArgs |-> prevArgs,
          cancelAsyncCallRef |-> cancelAsyncCallRef, promises |-> promises,
          reenter |-> reenter, callbackRefs |-> callbackRefs, obs |-> obs]

\* ---------------------------------------------------------------- reducer
Act(type, skip, result) == [type |-> type, skip |-> skip, result |-> result]

Unexpected(s) == [type |-> "unexpected", result |-> s.result]

\* slip: a start on a burst that is already waiting is accepted in silence
handleStart_tolerant(s) ==
  CASE s.type = "standby" -> [type |-> "waiting", result |-> s.result]
    [] s.type = "pending" -> [type |-> "waiting-pending", result |-> s.result]
    [] s.type \in {"waiting", "waiting-pending"} -> s

\* the revision whose leading callback dispatches "start" when a burst opens
handleStart(s) ==
  CASE s.type = "standby" -> [type |-> "waiting", result |-> s.result]
    [] s.type = "pending" -> [type |-> "waiting-pending", result |-> s.result]
    [] s.type \in {"waiting", "waiting-pending"} -> Unexpected(s)

\* the revision whose trigger callback dispatches "trigger" on every call
handleTrigger(s) ==
  CASE s.type = "standby" -> [type |-> "waiting", result |-> s.result]
    [] s.type = "waiting" -> s
    [] s.type = "pending" -> [type |-> "waiting-pending", result |-> s.result]
    [] s.type = "waiting-pending" -> s

handleLeadingCall(s, skip) ==
  CASE s.type = "waiting" ->
         IF skip THEN s ELSE [type |-> "waiting-pending", result |-> s.result]
    [] s.type = "waiting-pending" -> s
    [] s.type \in {"standby", "pending"} -> Unexpected(s)

\* slip: a skipped trailing edge leaves waiting-pending as it is
handleTrailingCall_skipKeepsWaiting(s, skip) ==
  CASE s.type = "waiting" ->
         IF skip THEN [type |-> "standby", result |-> s.result]
                 ELSE [type |-> "pending", result |-> s.result]
    [] s.type = "waiting-pending" ->
         IF skip THEN s ELSE [type |-> "pending", result |-> s.result]
    [] s.type \in {"standby", "pending"} -> Unexpected(s)

handleTrailingCall(s, skip) ==
  CASE s.type = "waiting" ->
         IF skip THEN [type |-> "standby", result |-> s.result]
                 ELSE [type |-> "pending", result |-> s.result]
    [] s.type = "waiting-pending" -> [type |-> "pending", result |-> s.result]
    [] s.type \in {"standby", "pending"} -> Unexpected(s)

\* slip: a fulfilment always lands in standby, even with a burst still waiting
handleFulfill_alwaysStandby(s, result) ==
  CASE s.type \in {"pending", "waiting-pending"} -> [type |-> "standby", result |-> result]
    [] s.type \in {"standby", "waiting"} -> Unexpected(s)

\* slip: a fulfilment during a waiting burst drops the fulfilled value
handleFulfill_keepsResult(s, result) ==
  CASE s.type = "pending" -> [type |-> "standby", result |-> result]
    [] s.type = "waiting-pending" -> [type |-> "waiting", result |-> s.result]
    [] s.type \in {"standby", "waiting"} -> Unexpected(s)

handleFulfill(s, result) ==
  CASE s.type = "pending" -> [type |-> "standby", result |-> result]
    [] s.type = "waiting-pending" -> [type |-> "waiting", result |-> result]
    [] s.type \in {"standby", "waiting"} -> Unexpected(s)

\* slip: a rejection leaves the run state as it was
handleReject_keepsPending(s) ==
  CASE s.type \in {"pending", "waiting-pending"} -> s
    [] s.type \in {"standby", "waiting"} -> Unexpected(s)

\* slip: a rejection always lands in standby, even with a burst still waiting
handleReject_alwaysStandby(s) ==
  CASE s.type \in {"pending", "waiting-pending"} -> [type |-> "standby", result |-> s.result]
    [] s.type \in {"standby", "waiting"} -> Unexpected(s)

handleReject(s) ==
  CASE s.type = "pending" -> [type |-> "standby", result |-> s.result]
    [] s.type = "waiting-pending" -> [type |-> "waiting", result |-> s.result]
    [] s.type \in {"standby", "waiting"} -> Unexpected(s)

\* slip: cancel drops the last result along with the run state
handleCancel_clearsResult(s) ==
  CASE s.type = "standby" -> s
    [] s.type \in {"waiting", "pending", "waiting-pending"} ->
         [type |-> "standby", result |-> InitResult]

handleCancel(s) ==
  CASE s.type = "standby" -> s
    [] s.type \in {"waiting", "pending", "waiting-pending"} ->
         [type |-> "standby", result |-> s.result]

handleReset(s, result) ==
  CASE s.type = "standby" ->
         IF s.result = result THEN s ELSE [type |-> "standby", result |-> result]
    [] s.type \in {"waiting", "pending", "waiting-pending"} -> Unexpected(s)

reducer(s, action) ==
  CASE action.type = "trigger" -> handleTrigger(s)
    [] action.type = "leadingCall" -> handleLeadingCall(s, action.skip)
    [] action.type = "trailingCall" -> handleTrailingCall(s, action.skip)
    [] action.type = "fulfill" -> handleFulfill(s, action.result)
    [] action.type = "reject" -> handleReject(s)
    [] action.type = "cancel" -> handleCancel(s)
    [] action.type = "reset" -> handleReset(s, action.result)

\* the reducer of the revision with the "start" action; its other handlers are the same
reducerStart(s, action) ==
  CASE action.type = "start" -> handleStart(s)
    [] action.type = "leadingCall" -> handleLeadingCall(s, action.skip)
    [] action.type = "trailingCall" -> handleTrailingCall(s, action.skip)
    [] action.type = "fulfill" -> handleFulfill(s, action.result)
    [] action.type = "reject" -> handleReject(s)
    [] action.type = "cancel" -> handleCancel(s)
    [] action.type = "reset" -> handleReset(s, action.result)

\* dispatch of useReducer: reduce in order; a throw sticks; nothing after unmount
dispatch(w, action) ==
  LET w0 == [w EXCEPT !.obs.dispatched = @ + 1]
  IN IF w0.isUnmounted \/ w0.error THEN w0
     ELSE LET next == reducer(w0.state, action)
          IN IF next.type = "unexpected"
               THEN [w0 EXCEPT !.error = TRUE]
               ELSE [w0 EXCEPT !.state = next]

\* ---------------------------------------------------------------- host timers
NewTimerId(tab) ==
  CHOOSE i \in TimerIds :
    /\ tab[i] = Unset
    /\ \A j \in TimerIds : tab[j] = Unset => i <= j

setTimeout(tab, id, delay) == [tab EXCEPT ![id] = delay]

clearTimeout(tab, id) == IF id \in TimerIds THEN [tab EXCEPT ![id] = Unset] ELSE tab

\* ---------------------------------------------------------------- promises
\* an unsettled promise: its id, whether the cancel function attachActions returned
\* for it has been called, and (history) whether a later invocation of func started
NewPromiseId(ps) ==
  CHOOSE i \in 1..(Cardinality(ps) + 1) :
    /\ \A p \in ps : p.id # i
    /\ \A j \in 1..(Cardinality(ps) + 1) : (\A p \in ps : p.id # j) => i <= j

\* the cancel function returned by attachActions
cancelAsyncCall(ps, id) ==
  {IF p.id = id THEN [p EXCEPT !.cancelled = TRUE] ELSE p : p \in ps}

Supersede(ps) == {[p EXCEPT !.superseded = TRUE] : p \in ps}

\* promise p settles and leaves the set of unsettled promises; the ids of the
\* younger ones close the gap, and a cancel function held for p is spent
Settled == -1

Settle(w, p) ==
  [w EXCEPT !.promises = {IF q.id > p.id THEN [q EXCEPT !.id = @ - 1] ELSE q : q \in @ \ {p}},
            !.cancelAsyncCallRef = IF @ = p.id THEN Settled
                                   ELSE IF @ > p.id THEN @ - 1 ELSE @]

\* ---------------------------------------------------------------- observations
\* lastFuncArgs: with shouldCall given, the arguments of the latest invocation
\* of func, whatever has become of prevArgsRef since; prevFuncArgs: those of the
\* one before it
ObsFunc(w, args) ==
  [w EXCEPT !.obs.func = @ + 1, !.obs.funcArgs = args,
            !.obs.prevFuncArgs = w.obs.lastFuncArgs,
            !.obs.lastFuncArgs = IF shouldCall THEN args ELSE 0]

\* a burst is open from a leading callback to the next trailing callback,
\* cancel of the open burst, or unmount
ObsClose(o) == [o EXCEPT !.open = FALSE, !.lastArgs = 0, !.triggers = 0]

\* the burst's clocks start when it opens
ObsLeading(w, args) ==
  [w EXCEPT !.obs.lead = @ + 1, !.obs.leadArgs = args, !.obs.open = TRUE,
            !.obs.sinceOpen = 0, !.obs.sinceLast = 0,
            !.obs.leadBy = w.callbackRefs.leading,
            !.obs.openTrailBy = w.callbackRefs.trailing]

\* reenter while no call from inside a callback is requested
NoReentry == 0

\* a trigger made from inside a callback, with arguments w.reenter: what it
\* finds, and the trigger itself, are recorded; the request is spent
ObsReentry(w) ==
  [w EXCEPT !.reenter = NoReentry,
            !.obs.reentered = TRUE, !.obs.reentryArgs = w.reenter,
            !.obs.reentryPrim = w.prim, !.obs.reentryTimers = w.timers,
            !.obs.lastArgs = w.reenter, !.obs.sinceLast = 0, !.obs.quiet = FALSE,
            !.obs.triggers = IF w.obs.open THEN @ + 1 ELSE 1]

\* trailSinceOpen, trailSinceLast: the burst's clocks when its trailing callback
\* is invoked
ObsTrailing(w, args, count) ==
  [w EXCEPT !.obs = [ObsClose(@) EXCEPT !.trail = @ + 1, !.trailArgs = args,
                                        !.trailCount = count,
                                        !.trailSinceOpen = w.obs.sinceOpen,
                                        !.trailSinceLast = w.obs.sinceLast,
                                        !.trailBy = w.callbackRefs.trailing,
                                        !.stray = @ \/ ~w.obs.open]]

ObsCancel(w) ==
  [w EXCEPT !.obs.cancelCb = @ + 1, !.obs.cancelBy = w.callbackRefs.cancel]

\* ---------------------------------------------------------------- useDebouncedAsyncCall
ShouldCallFn(prev, args) == prev # args

\* slip: shouldCall is never consulted
testShouldCallRef_neverAsks(w, args) == TRUE

testShouldCallRef(w, args) ==
  IF shouldCall /\ w.prevArgs # Undefined THEN ShouldCallFn(w.prevArgs, args) ELSE TRUE

\* options.func: it returns a new promise; while it runs it may itself call the
\* debounced call function the hook returned (once, with the argument in reenter),
\* or cancel or reset of its own hook
ReenterCancel == -1
ReenterReset == -2

RECURSIVE triggerRef(_, _)
RECURSIVE cancelRef(_)
RECURSIVE resetRef(_, _)

func(w, args) ==
  LET w1 == ObsFunc(w, args)
  IN IF w1.reenter = NoReentry THEN w1
     ELSE IF w1.reenter = ReenterCancel
       THEN cancelRef([w1 EXCEPT !.reenter = NoReentry, !.obs.selfCancel = TRUE])
     ELSE IF w1.reenter = ReenterReset
       THEN resetRef([w1 EXCEPT !.reenter = NoReentry, !.obs.selfCancel = TRUE], MaxVal)
     ELSE triggerRef(ObsReentry(w1), w1.reenter)

\* slip: the previous call is not cancelled before the next one starts
callRef_keepPrevious(w, args) ==
  LET w2 == func(w, args)
      id == NewPromiseId(w2.promises)
  IN [w2 EXCEPT !.promises = Supersede(@) \cup
                               {[id |-> id, cancelled |-> FALSE, superseded |-> FALSE]},
                !.cancelAsyncCallRef = id,
                !.prevArgs = args]

callRef(w, args) ==
  LET w1 == IF w.cancelAsyncCallRef # Undefined
              THEN [w EXCEPT !.promises = cancelAsyncCall(@, w.cancelAsyncCallRef),
                             !.cancelAsyncCallRef = Undefined]
              ELSE w
      w2 == func(w1, args)
      id == NewPromiseId(w2.promises)
  IN [w2 EXCEPT !.promises = Supersede(@) \cup
                               {[id |-> id, cancelled |-> FALSE, superseded |-> FALSE]},
                !.cancelAsyncCallRef = id,
                !.prevArgs = args]

onFulfilled(w, result) ==
  dispatch([w EXCEPT !.cancelAsyncCallRef = Undefined], Act("fulfill", FALSE, result))

onRejected(w) ==
  dispatch([w EXCEPT !.cancelAsyncCallRef = Undefined, !.prevArgs = Undefined],
           Act("reject", FALSE, 0))

\* slip: every trigger cancels the call in flight
triggerCallback_cancelsCall(w) ==
  LET w1 == IF w.cancelAsyncCallRef # Undefined
              THEN [w EXCEPT !.promises = cancelAsyncCall(@, w.cancelAsyncCallRef),
                             !.cancelAsyncCallRef = Undefined]
              ELSE w
  IN dispatch(w1, Act("trigger", FALSE, 0))

triggerCallback(w) == dispatch(w, Act("trigger", FALSE, 0))

leadingCallback(w, args) ==
  IF leading /\ testShouldCallRef(w, args)
    THEN dispatch(callRef(w, args), Act("leadingCall", FALSE, 0))
    ELSE dispatch(w, Act("leadingCall", TRUE, 0))

\* slip: the trailing edge of a burst of one leading call invokes func again
trailingCallback_ignoresCount(w, args, count) ==
  IF trailing /\ testShouldCallRef(w, args)
    THEN dispatch(callRef(w, args), Act("trailingCall", FALSE, 0))
    ELSE dispatch(w, Act("trailingCall", TRUE, 0))

\* slip: the trailing edge invokes func even with trailing = false
trailingCallback_ignoresTrailing(w, args, count) ==
  IF ~(leading /\ count = 1) /\ testShouldCallRef(w, args)
    THEN dispatch(callRef(w, args), Act("trailingCall", FALSE, 0))
    ELSE dispatch(w, Act("trailingCall", TRUE, 0))

trailingCallback(w, args, count) ==
  IF trailing /\ ~(leading /\ count = 1) /\ testShouldCallRef(w, args)
    THEN dispatch(callRef(w, args), Act("trailingCall", FALSE, 0))
    ELSE dispatch(w, Act("trailingCall", TRUE, 0))

\* slip: the in-flight call is left running on cancel
cancelCallback_keepCall(w) == dispatch(w, Act("cancel", FALSE, 0))

cancelCallback(w) ==
  LET w1 == IF w.cancelAsyncCallRef # Undefined
              THEN [w EXCEPT !.promises = cancelAsyncCall(@, w.cancelAsyncCallRef),
                             !.cancelAsyncCallRef = Undefined,
                             !.prevArgs = Undefined]
              ELSE w
  IN dispatch(w1, Act("cancel", FALSE, 0))

\* ---------------------------------------------------------------- useDebouncedPrim
\* slip: the run state is not returned to standby before the trailing callback
flushRef_staysWaiting(w) ==
  IF w.isUnmounted THEN w
  ELSE IF w.prim.type = "standby" THEN w
  ELSE LET p == w.prim
           w1 == [w EXCEPT !.timers = clearTimeout(clearTimeout(@, p.timerId),
                                                   p.maxWaitTimerId)]
       IN trailingCallback(ObsTrailing(w1, p.args, p.count), p.args, p.count)

\* slip: flush does not test the run state and fires on an idle engine too
flushRef_firesWhenIdle(w) ==
  IF w.isUnmounted THEN w
  ELSE LET p == w.prim
           args == IF p.type = "waiting" THEN p.args ELSE Undefined
           count == IF p.type = "waiting" THEN p.count ELSE 0
           w1 == [w EXCEPT !.timers = IF p.type = "waiting"
                                        THEN clearTimeout(clearTimeout(@, p.timerId),
                                                          p.maxWaitTimerId)
                                        ELSE @,
                           !.prim = Standby]
       IN trailingCallback(ObsTrailing(w1, args, count), args, count)

\* slip: flush leaves the maxWait timer of the burst scheduled
flushRef_keepsMaxWaitTimer(w) ==
  IF w.isUnmounted THEN w
  ELSE IF w.prim.type = "standby" THEN w
  ELSE LET p == w.prim
           w1 == [w EXCEPT !.timers = clearTimeout(@, p.timerId),
                           !.prim = Standby]
       IN trailingCallback(ObsTrailing(w1, p.args, p.count), p.args, p.count)

flushRef(w) ==
  IF w.isUnmounted THEN w
  ELSE IF w.prim.type = "standby" THEN w
  ELSE LET p == w.prim
           w1 == [w EXCEPT !.timers = clearTimeout(clearTimeout(@, p.timerId),
                                                   p.maxWaitTimerId),
                           !.prim = Standby]
       IN trailingCallback(ObsTrailing(w1, p.args, p.count), p.args, p.count)

\* slip: a trigger on an active burst keeps the arguments of the previous trigger
triggerRef_staleArgs(w, args) ==
  IF w.isUnmounted THEN w
  ELSE LET w0 == triggerCallback(w)
       IN IF w0.prim.type = "standby"
            THEN LET timerId == NewTimerId(w0.timers)
                     t1 == setTimeout(w0.timers, timerId, Wait)
                     maxWaitTimerId == IF maxWait # Undefined THEN NewTimerId(t1)
                                                              ELSE Undefined
                     t2 == IF maxWait # Undefined
                             THEN setTimeout(t1, maxWaitTimerId, maxWait)
                             ELSE t1
                     w1 == [w0 EXCEPT !.timers = t2,
                                      !.prim = [type |-> "waiting", timerId |-> timerId,
                                                maxWaitTimerId |-> maxWaitTimerId,
                                                args |-> args, count |-> 1]]
                 IN leadingCallback(ObsLeading(w1, args), args)
            ELSE LET p == w0.prim
                     t1 == clearTimeout(w0.timers, p.timerId)
                     timerId == NewTimerId(t1)
                 IN [w0 EXCEPT !.timers = setTimeout(t1, timerId, Wait),
                               !.prim = [type |-> "waiting", timerId |-> timerId,
                                         maxWaitTimerId |-> p.maxWaitTimerId,
                                         args |-> p.args, count |-> p.count + 1]]

\* slip: a trigger on an active burst restarts the maxWait timer as well
triggerRef_restartsMaxWait(w, args) ==
  IF w.isUnmounted THEN w
  ELSE LET w0 == triggerCallback(w)
       IN IF w0.prim.type = "standby"
            THEN LET timerId == NewTimerId(w0.timers)
                     t1 == setTimeout(w0.timers, timerId, Wait)
                     maxWaitTimerId == IF maxWait # Undefined THEN NewTimerId(t1)
                                                              ELSE Undefined
                     t2 == IF maxWait # Undefined
                             THEN setTimeout(t1, maxWaitTimerId, maxWait)
                             ELSE t1
                     w1 == [w0 EXCEPT !.timers = t2,
                                      !.prim = [type |-> "waiting", timerId |-> timerId,
                                                maxWaitTimerId |-> maxWaitTimerId,
                                                args |-> args, count |-> 1]]
                 IN leadingCallback(ObsLeading(w1, args), args)
            ELSE LET p == w0.prim
                     t1 == clearTimeout(clearTimeout(w0.timers, p.timerId), p.maxWaitTimerId)
                     timerId == NewTimerId(t1)
                     t2 == setTimeout(t1, timerId, Wait)
                     maxWaitTimerId == IF maxWait # Undefined THEN NewTimerId(t2)
                                                              ELSE Undefined
                     t3 == IF maxWait # Undefined
                             THEN setTimeout(t2, maxWaitTimerId, maxWait)
                             ELSE t2
                 IN [w0 EXCEPT !.timers = t3,
                               !.prim = [type |-> "waiting", timerId |-> timerId,
                                         maxWaitTimerId |-> maxWaitTimerId,
                                         args |-> args, count |-> p.count + 1]]

\* slip: every trigger invokes the leading callback, not only the opening one
triggerRef_leadsEveryTrigger(w, args) ==
  IF w.isUnmounted THEN w
  ELSE LET w0 == triggerCallback(w)
       IN IF w0.prim.type = "standby"
            THEN LET timerId == NewTimerId(w0.timers)
                     t1 == setTimeout(w0.timers, timerId, Wait)
                     maxWaitTimerId == IF maxWait # Undefined THEN NewTimerId(t1)
                                                              ELSE Undefined
                     t2 == IF maxWait # Undefined
                             THEN setTimeout(t1, maxWaitTimerId, maxWait)
                             ELSE t1
                     w1 == [w0 EXCEPT !.timers = t2,
                                      !.prim = [type |-> "waiting", timerId |-> timerId,
                                                maxWaitTimerId |-> maxWaitTimerId,
                                                args |-> args, count |-> 1]]
                 IN leadingCallback(ObsLeading(w1, args), args)
            ELSE LET p == w0.prim
                     t1 == clearTimeout(w0.timers, p.timerId)
                     timerId == NewTimerId(t1)
                     w1 == [w0 EXCEPT !.timers = setTimeout(t1, timerId, Wait),
                                      !.prim = [type |-> "waiting", timerId |-> timerId,
                                                maxWaitTimerId |-> p.maxWaitTimerId,
                                                args |-> args, count |-> p.count + 1]]
                 IN leadingCallback(ObsLeading(w1, args), args)

\* slip: the opening trigger is not counted
triggerRef_countsFromZero(w, args) ==
  IF w.isUnmounted THEN w
  ELSE LET w0 == triggerCallback(w)
       IN IF w0.prim.type = "standby"
            THEN LET timerId == NewTimerId(w0.timers)
                     t1 == setTimeout(w0.timers, timerId, Wait)
                     maxWaitTimerId == IF maxWait # Undefined THEN NewTimerId(t1)
                                                              ELSE Undefined
                     t2 == IF maxWait # Undefined
                             THEN setTimeout(t1, maxWaitTimerId, maxWait)
                             ELSE t1
                     w1 == [w0 EXCEPT !.timers = t2,
                                      !.prim = [type |-> "waiting", timerId |-> timerId,
                                                maxWaitTimerId |-> maxWaitTimerId,
                                                args |-> args, count |-> 0]]
                 IN leadingCallback(ObsLeading(w1, args), args)
            ELSE LET p == w0.prim
                     t1 == clearTimeout(w0.timers, p.timerId)
                     timerId == NewTimerId(t1)
                 IN [w0 EXCEPT !.timers = setTimeout(t1, timerId, Wait),
                               !.prim = [type |-> "waiting", timerId |-> timerId,
                                         maxWaitTimerId |-> p.maxWaitTimerId,
                                         args |-> args, count |-> p.count + 1]]

triggerRef(w, args) ==
  IF w.isUnmounted THEN w
  ELSE LET w0 == triggerCallback(w)
       IN IF w0.prim.type = "standby"
            THEN LET timerId == NewTimerId(w0.timers)
                     t1 == setTimeout(w0.timers, timerId, Wait)
                     maxWaitTimerId == IF maxWait # Undefined THEN NewTimerId(t1)
                                                              ELSE Undefined
                     t2 == IF maxWait # Undefined
                             THEN setTimeout(t1, maxWaitTimerId, maxWait)
                             ELSE t1
                     w1 == [w0 EXCEPT !.timers = t2,
                                      !.prim = [type |-> "waiting", timerId |-> timerId,
                                                maxWaitTimerId |-> maxWaitTimerId,
                                                args |-> args, count |-> 1]]
                 IN leadingCallback(ObsLeading(w1, args), args)
            ELSE LET p == w0.prim
                     t1 == clearTimeout(w0.timers, p.timerId)
                     timerId == NewTimerId(t1)
                 IN [w0 EXCEPT !.timers = setTimeout(t1, timerId, Wait),
                               !.prim = [type |-> "waiting", timerId |-> timerId,
                                         maxWaitTimerId |-> p.maxWaitTimerId,
                                         args |-> args, count |-> p.count + 1]]

\* slip: the cancel callback is invoked only when a burst is waiting
cancelRef_onlyWhenWaiting(w) ==
  IF w.isUnmounted THEN w
  ELSE LET p == w.prim
       IN IF p.type = "waiting"
            THEN cancelCallback(ObsCancel(
                   [w EXCEPT !.timers = clearTimeout(clearTimeout(@, p.timerId),
                                                     p.maxWaitTimerId),
                             !.prim = Standby]))
            ELSE w

\* slip: the maxWait timer is left scheduled on cancel
cancelRef_keepsMaxWaitTimer(w) ==
  IF w.isUnmounted THEN w
  ELSE LET p == w.prim
           w1 == IF p.type = "waiting"
                   THEN [w EXCEPT !.timers = clearTimeout(@, p.timerId),
                                  !.prim = Standby]
                   ELSE w
       IN cancelCallback(ObsCancel(w1))

\* slip: cancel of a waiting burst runs the trailing edge before it cancels
cancelRef_alsoFlushes(w) ==
  IF w.isUnmounted THEN w
  ELSE cancelCallback(ObsCancel(flushRef(w)))

cancelRef(w) ==
  IF w.isUnmounted THEN w
  ELSE LET p == w.prim
           w1 == IF p.type = "waiting"
                   THEN [w EXCEPT !.timers = clearTimeout(clearTimeout(@, p.timerId),
                                                          p.maxWaitTimerId),
                                  !.prim = Standby]
                   ELSE w
       IN cancelCallback(ObsCancel(w1))

\* slip: teardown only raises the flag and leaves the burst's timers scheduled
primUnmount_keepsTimers(w) == [w EXCEPT !.isUnmounted = TRUE]

primUnmount(w) ==
  LET p == w.prim
  IN [w EXCEPT !.isUnmounted = TRUE,
               !.timers = IF p.type = "waiting"
                            THEN clearTimeout(clearTimeout(@, p.timerId), p.maxWaitTimerId)
                            ELSE @]

\* slip: reset is dispatched without cancelling first
resetRef_noCancel(w, result) ==
  dispatch([w EXCEPT !.prevArgs = Undefined], Act("reset", FALSE, result))

resetRef(w, result) ==
  dispatch([cancelRef(w) EXCEPT !.prevArgs = Undefined], Act("reset", FALSE, result))

asyncCallUnmount(w) ==
  IF w.cancelAsyncCallRef # Undefined
    THEN [w EXCEPT !.promises = cancelAsyncCall(@, w.cancelAsyncCallRef),
                   !.cancelAsyncCallRef = Undefined,
                   !.prevArgs = Undefined]
    ELSE w

\* ---------------------------------------------------------------- operations
\* a callback is known by the number of the render that created it
Callbacks == [trigger : 1..MaxCallbacks, leading : 1..MaxCallbacks,
              trailing : 1..MaxCallbacks, cancel : 1..MaxCallbacks]

InitCallbacks == [trigger |-> 1, leading |-> 1, trailing |-> 1, cancel |-> 1]

\* the callbacks useDebouncedAsyncCall passes to usePrimitiveDebounce
HookCallback == 0
HookCallbacks == [trigger |-> 1, leading |-> HookCallback, trailing |-> HookCallback,
                  cancel |-> HookCallback]

InitObs == [op |-> "init", opArg |-> 0, wasOpen |-> FALSE,
            lead |-> 0, leadArgs |-> 0, leadActive |-> FALSE, trail |-> 0, trailArgs |-> 0, trailCount |-> 0,
            cancelCb |-> 0, func |-> 0, funcArgs |-> 0,
            lastFuncArgs |-> 0, prevFuncArgs |-> 0,
            leadBy |-> 0, trailBy |-> 0, cancelBy |-> 0,
            passed |-> InitCallbacks, openTrailBy |-> 1,
            open |-> FALSE, stray |-> FALSE, lastArgs |-> 0,
            sinceLast |-> 0, sinceOpen |-> 0,
            trailSinceLast |-> 0, trailSinceOpen |-> 0,
            staleSettle |-> FALSE, deadSettle |-> FALSE, quiet |-> FALSE,
            rejected |-> FALSE, triggers |-> 0, dispatched |-> 0,
            afterMaxWait |-> FALSE, selfCancel |-> FALSE,
            reentered |-> FALSE, reentryArgs |-> 0, reentryPrim |-> Standby,
            reentryTimers |-> [i \in TimerIds |-> Unset],
            from |-> [type |-> "standby", result |-> InitResult],
            action |-> Act("init", FALSE, 0)]

\* the world at the start of operation op, with the per-operation observations cleared
StartOp(op, arg) ==
  [World EXCEPT !.obs = [obs EXCEPT !.op = op, !.opArg = arg,
                                    !.wasOpen = obs.open,
                                    !.sinceLast = IF obs.open THEN @ ELSE 0,
                                    !.sinceOpen = IF obs.open THEN @ ELSE 0,
                                    !.lead = 0, !.leadArgs = 0, !.leadActive = FALSE,
                                    !.trail = 0, !.trailArgs = 0, !.trailCount = 0,
                                    !.trailSinceLast = 0, !.trailSinceOpen = 0,
                                    !.cancelCb = 0, !.func = 0, !.funcArgs = 0,
                                    !.prevFuncArgs = 0,
                                    !.leadBy = 0, !.trailBy = 0, !.cancelBy = 0,
                                    !.staleSettle = FALSE, !.deadSettle = FALSE,
                                    !.dispatched = 0, !.afterMaxWait = FALSE,
                                    !.selfCancel = FALSE,
                                    !.reentered = FALSE, !.reentryArgs = 0,
                                    !.reentryPrim = Standby,
                                    !.reentryTimers = [i \in TimerIds |-> Unset],
                                    !.rejected = IF obs.open THEN @ ELSE FALSE]]

Commit(w) ==
  /\ prim' = w.prim
  /\ isUnmounted' = w.isUnmounted
  /\ timers' = w.timers
  /\ state' = w.state
  /\ error' = w.error
  /\ prevArgs' = w.prevArgs
  /\ cancelAsyncCallRef' = w.cancelAsyncCallRef
  /\ promises' = w.promises
  /\ reenter' = w.reenter
  /\ callbackRefs' = w.callbackRefs
  /\ obs' = w.obs
  /\ UNCHANGED optVars

\* invocations of func one burst can make under the options
CallsPerBurst == (IF leading THEN 1 ELSE 0) + (IF trailing THEN 1 ELSE 0)

Init ==
  /\ prim = Standby
  /\ isUnmounted = FALSE
  /\ timers = [i \in TimerIds |-> Unset]
  /\ state = [type |-> "standby", result |-> InitResult]
  /\ error = FALSE
  /\ prevArgs = Undefined
  /\ cancelAsyncCallRef = Undefined
  /\ promises = {}
  /\ reenter = NoReentry
  /\ callbackRefs = InitCallbacks
  /\ leading \in BOOLEAN
  /\ trailing \in BOOLEAN
  /\ maxWait \in {Undefined, MaxWaitVal}
  /\ shouldCall \in BOOLEAN
  /\ obs = InitObs

\* the last operation was the expiry of the maxWait timer of a burst whose wait
\* timer was not yet due, and it invoked the trailing callback
MaxWaitFired ==
  /\ maxWait # Undefined /\ ~isUnmounted
  /\ obs.op = "timer" /\ obs.trail = 1
  /\ obs.trailSinceOpen = maxWait /\ obs.trailSinceLast < Wait

\* the debounced call function returned by the hook
Trigger(args) ==
  /\ ~error
  /\ prim.type = "standby" => Cardinality(promises) + CallsPerBurst <= MaxPromises
  /\ prim.type = "waiting" => prim.count < MaxCount
  /\ LET w0 == StartOp("trigger", args)
         w1 == IF isUnmounted THEN w0
               ELSE [w0 EXCEPT !.obs.lastArgs = args, !.obs.sinceLast = 0,
                               !.obs.quiet = FALSE,
                               !.obs.triggers = IF obs.open THEN @ + 1 ELSE 1,
                               !.obs.afterMaxWait = MaxWaitFired]
     IN Commit(triggerRef(w1, args))

Cancel ==
  /\ ~error
  /\ LET w0 == StartOp("cancel", 0)
         w1 == IF isUnmounted THEN w0
               ELSE [w0 EXCEPT !.obs = [ObsClose(@) EXCEPT !.quiet = TRUE]]
     IN Commit(cancelRef(w1))

Reset(result) ==
  /\ ~error
  /\ LET w0 == StartOp("reset", result)
         w1 == IF isUnmounted THEN w0
               ELSE [w0 EXCEPT !.obs = [ObsClose(@) EXCEPT !.quiet = FALSE]]
     IN Commit(resetRef(w1, result))

Flush ==
  /\ ~error
  /\ Commit(flushRef(StartOp("flush", 0)))

\* a scheduled timer whose delay has run out calls flushRef
TimerExpire(id) ==
  /\ ~error
  /\ timers[id] = 0
  /\ LET w0 == StartOp("timer", id)
     IN Commit(flushRef([w0 EXCEPT !.timers[id] = Unset]))

\* one unit of time passes; no timer is overdue
Tick ==
  /\ ~error
  /\ \A i \in TimerIds : timers[i] # 0
  /\ LET w0 == StartOp("tick", 0)
     IN Commit([w0 EXCEPT
          !.timers = [i \in TimerIds |-> IF @[i] = Unset THEN Unset ELSE @[i] - 1],
          !.obs.sinceLast = IF obs.open THEN Min(@ + 1, ClockCap) ELSE 0,
          !.obs.sinceOpen = IF obs.open /\ maxWait # Undefined
                              THEN Min(@ + 1, ClockCap) ELSE 0])

Fulfill(p, result) ==
  /\ ~error
  /\ p \in promises
  /\ LET w0 == StartOp("fulfill", result)
         w1 == [Settle(w0, p) EXCEPT !.obs.staleSettle = p.superseded,
                                     !.obs.deadSettle = p.cancelled]
     IN Commit(IF p.cancelled THEN w1 ELSE onFulfilled(w1, result))

Reject(p) ==
  /\ ~error
  /\ p \in promises
  /\ LET w0 == StartOp("reject", 0)
         w1 == [Settle(w0, p) EXCEPT !.obs.staleSettle = p.superseded,
                                     !.obs.deadSettle = p.cancelled,
                                     !.obs.rejected = @ \/ (obs.open /\ ~p.cancelled)]
     IN Commit(IF p.cancelled THEN w1 ELSE onRejected(w1))

\* the component unmounts, in the revision on useDebouncedPrim: the engine's
\* cleanup raises its flag and clears the timers without a callback, then the
\* hook's cleanup cancels the call in flight (for the revision on
\* usePrimitiveDebounce see UnmountStart)
Unmount ==
  /\ ~error
  /\ ~isUnmounted
  /\ LET w0 == StartOp("unmount", 0)
     IN Commit(asyncCallUnmount(primUnmount([w0 EXCEPT !.obs = ObsClose(@)])))

Next ==
  \/ \E args \in Args : Trigger(args)
  \/ Cancel
  \/ \E result \in Values : Reset(result)
  \/ Flush
  \/ \E id \in TimerIds : TimerExpire(id)
  \/ Tick
  \/ \E p \in promises : \E result \in Values : Fulfill(p, result)
  \/ \E p \in promises : Reject(p)
  \/ Unmount

Spec == Init /\ [][Next]_vars

\* the hook under fair scheduling: the event loop lets time pass, runs every
\* timer that is due, and every promise func returned settles. A timer is due
\* exactly when TimerExpire is enabled, and TimerExpire always changes the timer
\* table, so the second conjunct is weak fairness of TimerExpire written out.
\* The run state depends on the values of arguments and results only through
\* shouldCall, which compares arguments: one value of each is drawn, so that
\* with shouldCall every repeated call is declined.
TimerDue == ~error /\ \E id \in TimerIds : timers[id] = 0

Settles == \E p \in promises : Reject(p) \/ Fulfill(p, MaxVal)

NextLive ==
  \/ Trigger(MaxArg)
  \/ Cancel
  \/ Reset(MaxVal)
  \/ Flush
  \/ \E id \in TimerIds : TimerExpire(id)
  \/ Tick
  \/ Settles
  \/ Unmount

SpecLive ==
  /\ Init /\ [][NextLive]_vars
  /\ WF_vars(Tick)
  /\ ([]<>(~TimerDue) \/ []<><<\E id \in TimerIds : TimerExpire(id)>>_vars)
  /\ WF_vars(Settles)

\* func is replaced by one that, on its next invocation, calls the debounced call
\* function with args before it returns its promise
\* (room is kept for its promise and for that of an invocation nested in it)
FuncReenters(args) ==
  /\ ~error /\ ~isUnmounted
  /\ reenter = NoReentry
  /\ Cardinality(promises) + 2 <= MaxPromises
  /\ Commit([StartOp("func", args) EXCEPT !.reenter = args])

NextReentrant ==
  \/ Next
  \/ \E args \in Args : FuncReenters(args)

SpecReentrant == Init /\ [][NextReentrant]_vars

\* func is replaced by one that, on its next invocation, calls cancel (or reset)
\* of its own hook before it returns its promise
FuncCancels(how) ==
  /\ ~error /\ ~isUnmounted
  /\ reenter = NoReentry
  /\ Commit([StartOp("func", how) EXCEPT !.reenter = how])

NextSelfCancel ==
  \/ Next
  \/ \E how \in {ReenterCancel, ReenterReset} : FuncCancels(how)

SpecSelfCancel == Init /\ [][NextSelfCancel]_vars

\* ---------------------------------------------------------------- the reducers alone
\* every reducer state, and every action either reducer can be handed
States == [type : {"standby", "waiting", "pending", "waiting-pending"}, result : Values]

Actions(first) ==
  {Act(first, FALSE, 0), Act("reject", FALSE, 0), Act("cancel", FALSE, 0)}
    \cup {Act(t, skip, 0) : t \in {"leadingCall", "trailingCall"}, skip \in BOOLEAN}
    \cup {Act(t, FALSE, result) : t \in {"fulfill", "reset"}, result \in Values}

InitReducer ==
  /\ prim = Standby
  /\ isUnmounted = FALSE
  /\ timers = [i \in TimerIds |-> Unset]
  /\ state \in States
  /\ error = FALSE
  /\ prevArgs = Undefined
  /\ cancelAsyncCallRef = Undefined
  /\ promises = {}
  /\ reenter = NoReentry
  /\ callbackRefs = InitCallbacks
  /\ leading = FALSE /\ trailing = TRUE /\ maxWait = Undefined /\ shouldCall = FALSE
  /\ obs = InitObs

\* one application of a reducer: error tells whether it threw instead of returning
Reduced(op, action, next) ==
  /\ error' = (next.type = "unexpected")
  /\ state' = IF next.type = "unexpected" THEN state ELSE next
  /\ obs' = [InitObs EXCEPT !.op = op, !.from = state, !.action = action]
  /\ UNCHANGED <<prim, isUnmounted, timers, prevArgs, cancelAsyncCallRef, promises,
                 reenter, callbackRefs, leading, trailing, maxWait, shouldCall>>

ReduceStart(action) == Reduced("reducerStart", action, reducerStart(state, action))

Reduce(action) == Reduced("reducer", action, reducer(state, action))

NextReducer ==
  \/ \E action \in Actions("start") : ReduceStart(action)
  \/ \E action \in Actions("trigger") : Reduce(action)

SpecReducer == InitReducer /\ [][NextReducer]_vars

\* ---------------------------------------------------------------- the first useDebouncedPrim
\* the earliest revision of the engine, on its own: its callbacks are the caller's
\* and are only observed; it counts from 0 and keeps running after unmount,
\* merely skipping the callbacks

\* slip: the opening trigger is counted as well
debouncedFunc_countsOpening(w, args) ==
  IF w.prim.type = "standby"
    THEN LET timerId == NewTimerId(w.timers)
             t1 == setTimeout(w.timers, timerId, Wait)
             maxWaitTimerId == IF maxWait # Undefined THEN NewTimerId(t1) ELSE Undefined
             t2 == IF maxWait # Undefined THEN setTimeout(t1, maxWaitTimerId, maxWait)
                                          ELSE t1
             w1 == [w EXCEPT !.timers = t2,
                             !.prim = [type |-> "waiting", timerId |-> timerId,
                                       maxWaitTimerId |-> maxWaitTimerId,
                                       args |-> args, count |-> 1]]
         IN IF w.isUnmounted THEN w1 ELSE ObsLeading(w1, args)
    ELSE LET p == w.prim
             t1 == clearTimeout(w.timers, p.timerId)
             timerId == NewTimerId(t1)
         IN [w EXCEPT !.timers = setTimeout(t1, timerId, Wait),
                      !.prim = [type |-> "waiting", timerId |-> timerId,
                                maxWaitTimerId |-> p.maxWaitTimerId,
                                args |-> args, count |-> p.count + 1]]

debouncedFunc(w, args) ==
  IF w.prim.type = "standby"
    THEN LET timerId == NewTimerId(w.timers)
             t1 == setTimeout(w.timers, timerId, Wait)
             maxWaitTimerId == IF maxWait # Undefined THEN NewTimerId(t1) ELSE Undefined
             t2 == IF maxWait # Undefined THEN setTimeout(t1, maxWaitTimerId, maxWait)
                                          ELSE t1
             w1 == [w EXCEPT !.timers = t2,
                             !.prim = [type |-> "waiting", timerId |-> timerId,
                                       maxWaitTimerId |-> maxWaitTimerId,
                                       args |-> args, count |-> 0]]
         IN IF w.isUnmounted THEN w1 ELSE ObsLeading(w1, args)
    ELSE LET p == w.prim
             t1 == clearTimeout(w.timers, p.timerId)
             timerId == NewTimerId(t1)
         IN [w EXCEPT !.timers = setTimeout(t1, timerId, Wait),
                      !.prim = [type |-> "waiting", timerId |-> timerId,
                                maxWaitTimerId |-> p.maxWaitTimerId,
                                args |-> args, count |-> p.count + 1]]

flushRefFirst(w) ==
  IF w.prim.type = "standby" THEN w
  ELSE LET p == w.prim
           w1 == [w EXCEPT !.timers = clearTimeout(clearTimeout(@, p.timerId),
                                                   p.maxWaitTimerId),
                           !.prim = Standby]
       IN IF w.isUnmounted THEN w1 ELSE ObsTrailing(w1, p.args, p.count)

cancelRefFirst(w) ==
  IF w.prim.type = "standby" THEN w
  ELSE LET p == w.prim
       IN [w EXCEPT !.timers = clearTimeout(clearTimeout(@, p.timerId), p.maxWaitTimerId),
                    !.prim = Standby]

unmountFirst(w) == [w EXCEPT !.isUnmounted = TRUE]

InitFirst ==
  /\ prim = Standby
  /\ isUnmounted = FALSE
  /\ timers = [i \in TimerIds |-> Unset]
  /\ state = [type |-> "standby", result |-> InitResult]
  /\ error = FALSE
  /\ prevArgs = Undefined
  /\ cancelAsyncCallRef = Undefined
  /\ promises = {}
  /\ reenter = NoReentry
  /\ callbackRefs = InitCallbacks
  /\ leading = FALSE /\ trailing = TRUE /\ shouldCall = FALSE
  /\ maxWait \in {Undefined, MaxWaitVal}
  /\ obs = InitObs

\* the end of an operation that leaves no burst behind, whether or not the
\* trailing callback was invoked
Closed(w) == [w EXCEPT !.obs = ObsClose(@)]

FirstTrigger(args) ==
  /\ prim.type = "waiting" => prim.count < MaxCount
  /\ LET w0 == StartOp("trigger", args)
         w1 == [w0 EXCEPT !.obs.open = TRUE, !.obs.lastArgs = args,
                          !.obs.sinceLast = 0,
                          !.obs.triggers = IF obs.open THEN @ + 1 ELSE 1]
     IN Commit(debouncedFunc(w1, args))

FirstCancel == Commit(Closed(cancelRefFirst(StartOp("cancel", 0))))

FirstFlush == Commit(Closed(flushRefFirst(StartOp("flush", 0))))

FirstTimerExpire(id) ==
  /\ timers[id] = 0
  /\ LET w0 == StartOp("timer", id)
     IN Commit(Closed(flushRefFirst([w0 EXCEPT !.timers[id] = Unset])))

FirstUnmount ==
  /\ ~isUnmounted
  /\ Commit(unmountFirst(StartOp("unmount", 0)))

NextFirst ==
  \/ \E args \in Args : FirstTrigger(args)
  \/ FirstCancel
  \/ FirstFlush
  \/ \E id \in TimerIds : FirstTimerExpire(id)
  \/ Tick
  \/ FirstUnmount

SpecFirst == InitFirst /\ [][NextFirst]_vars

TypeOK ==
  /\ prim.type \in {"standby", "waiting"}
  /\ state.type \in {"standby", "waiting", "pending", "waiting-pending"}
  /\ state.result \in Values
  /\ \A p \in promises : p.id \in 1..Cardinality(promises)
  /\ reenter \in {NoReentry, ReenterCancel, ReenterReset} \cup Args
  /\ callbackRefs \in Callbacks \cup {HookCallbacks}

\* ---------------------------------------------------------------- properties
NoTimerScheduled(tab) == \A i \in TimerIds : tab[i] = Unset
NoCallInFlight(ps) == \A p \in ps : p.cancelled
IsWaiting(s) == s.type # "standby"

\* C1: whatever the options and the interleaving of call, cancel, reset, flush,
\* timer expiry, fulfilment and rejection, the reducer is never handed an action
\* that is illegal for its state: no "unexpected state" error is raised.
C1_NoUnexpectedState == ~error

C1_Witness ==
  /\ ~error /\ ~isUnmounted
  /\ obs.op = "reset" /\ obs.wasOpen
  /\ \E p \in promises : p.cancelled /\ ~p.superseded

\* C2: the settlement (fulfilment or rejection) of an invocation that a newer
\* invocation has superseded never changes the visible result.
C2_SupersededSettlementIgnored ==
  [][(obs'.op \in {"fulfill", "reject"} /\ obs'.staleSettle)
       => state'.result = state.result]_vars

C2_Witness ==
  /\ obs.op = "fulfill" /\ obs.staleSettle
  /\ obs.opArg # state.result
  /\ \E p \in promises : ~p.cancelled

\* C3: a burst's trailing callback fires once, with the arguments of the last
\* trigger, exactly when wait has elapsed since that trigger or maxWait has
\* elapsed since the burst opened, and time never passes that moment with the
\* burst still open.
C3_TrailingOncePerBurst ==
  [][/\ ~obs'.stray
     /\ (obs'.op = "timer" /\ obs'.trail > 0) =>
          /\ obs.open /\ obs'.trail = 1
          /\ obs'.trailArgs = obs.lastArgs
          /\ \/ obs.sinceLast = Wait
             \/ maxWait # Undefined /\ obs.sinceOpen = maxWait
     /\ (obs'.op = "tick" /\ obs.open) => obs.sinceLast < Wait]_vars

C3_Witness ==
  /\ obs.op = "timer" /\ obs.trail = 1
  /\ obs.trailCount >= 2
  /\ obs.sinceLast = Wait

\* C4: cancel() on an active burst returns the engine to idle with no timer left
\* scheduled, and the trailing callback does not fire for that burst, then or later.
C4_CancelClosesBurst ==
  [][/\ ~obs'.stray
     /\ (obs'.op = "cancel" /\ obs.open /\ ~isUnmounted) =>
          /\ prim'.type = "standby"
          /\ NoTimerScheduled(timers')
          /\ obs'.trail = 0]_vars

C4_Witness ==
  /\ obs.op = "cancel" /\ obs.wasOpen
  /\ maxWait # Undefined
  /\ prim.type = "standby" /\ obs.cancelCb = 1

\* C5: flush() on an active burst fires the trailing callback synchronously, once,
\* with the latest arguments, and leaves nothing that could fire it again.
C5_FlushFiresOnce ==
  [][/\ ~obs'.stray
     /\ (obs'.op = "flush" /\ obs.open /\ ~isUnmounted) =>
          /\ obs'.trail = 1
          /\ obs'.trailArgs = obs.lastArgs
          /\ prim'.type = "standby"
          /\ NoTimerScheduled(timers')]_vars

C5_Witness ==
  /\ obs.op = "flush" /\ obs.wasOpen
  /\ obs.trail = 1 /\ obs.trailCount >= 2
  /\ maxWait # Undefined

\* C6: with maxWait configured a burst never stays open longer than maxWait after
\* its first trigger, however often it is re-triggered, and the firing carries the
\* latest arguments.
C6_MaxWaitBoundsBurst ==
  [][maxWait # Undefined =>
       /\ (obs'.op = "tick" /\ obs.open) => obs.sinceOpen < maxWait
       /\ obs'.open => obs'.sinceOpen <= maxWait
       /\ (obs'.op = "timer" /\ obs'.trail > 0) => obs'.trailArgs = obs.lastArgs]_vars

C6_Witness ==
  /\ maxWait # Undefined
  /\ obs.op = "timer" /\ obs.trail = 1
  /\ obs.sinceOpen = maxWait /\ obs.sinceLast < Wait
  /\ obs.trailCount >= 2

\* C7: with leading = true the trigger that opens a burst invokes the leading
\* callback once, inside that trigger and with its arguments (and func with them,
\* unless shouldCall declines); no other trigger or operation invokes it.
C7_LeadingOncePerBurst ==
  [][leading =>
       /\ (obs'.op = "trigger" /\ ~obs.open /\ ~isUnmounted) =>
            /\ obs'.lead = 1 /\ obs'.leadArgs = obs'.opArg
            /\ IF testShouldCallRef(World, obs'.opArg)
                 THEN obs'.func = 1 /\ obs'.funcArgs = obs'.opArg
                 ELSE obs'.func = 0
       /\ (obs'.op = "trigger" /\ obs.open) => obs'.lead = 0 /\ obs'.func = 0
       /\ obs'.op # "trigger" => obs'.lead = 0]_vars

C7_Witness ==
  /\ leading
  /\ obs.op = "trigger" /\ ~obs.wasOpen
  /\ obs.lead = 1 /\ obs.leadArgs = obs.opArg
  /\ obs.func = 1 /\ obs.funcArgs = obs.opArg

\* C8: cancel() on a mounted hook, whatever was waiting or pending, leaves
\* isWaiting false and result as it was, with no timer scheduled and no call in
\* flight; until the next call or reset nothing invokes func or changes the state.
C8_CancelQuiesces ==
  [][/\ (obs'.op = "cancel" /\ ~isUnmounted) =>
          /\ ~IsWaiting(state')
          /\ state'.result = state.result
          /\ NoTimerScheduled(timers')
          /\ NoCallInFlight(promises')
     /\ (obs.quiet /\ obs'.quiet) => (state' = state /\ obs'.func = 0)]_vars

C8_Witness ==
  /\ ~isUnmounted /\ obs.quiet
  /\ obs.op = "fulfill" /\ obs.deadSettle /\ ~obs.staleSettle
  /\ obs.opArg # state.result

\* C9: reset(v) on a mounted hook in any state cancels the burst and the call in
\* flight and leaves result = v and isWaiting false without error; afterwards
\* result changes only when a live invocation fulfils or reset is called again.
C9_ResetSetsResult ==
  [][/\ (obs'.op = "reset" /\ ~isUnmounted) =>
          /\ ~error'
          /\ state' = [type |-> "standby", result |-> obs'.opArg]
          /\ NoTimerScheduled(timers')
          /\ NoCallInFlight(promises')
     /\ state'.result # state.result =>
          \/ obs'.op = "fulfill" /\ ~obs'.deadSettle
          \/ obs'.op = "reset"]_vars

C9_Witness ==
  /\ ~isUnmounted
  /\ obs.op = "reset" /\ ~obs.wasOpen
  /\ obs.opArg # InitResult /\ state.result = obs.opArg
  /\ \E p \in promises : p.cancelled /\ ~p.superseded

\* C10: while mounted, the reducer is in waiting or waiting-pending exactly when the
\* engine has an active burst (its wait timer scheduled), and in pending or
\* waiting-pending exactly when an invoked call is neither settled nor cancelled;
\* so isWaiting holds exactly when one of the two is outstanding.
C10_StateTracksEngineAndCall ==
  (~isUnmounted /\ ~error) =>
    /\ state.type \in {"waiting", "waiting-pending"} <=> prim.type = "waiting"
    /\ prim.type = "waiting" <=> \E i \in TimerIds : timers[i] # Unset
    /\ prim.type = "waiting" => timers[prim.timerId] # Unset
    /\ state.type \in {"pending", "waiting-pending"} <=> ~NoCallInFlight(promises)
    /\ IsWaiting(state) <=> (prim.type = "waiting" \/ ~NoCallInFlight(promises))

C10_Witness ==
  /\ ~isUnmounted
  /\ state.type = "waiting-pending"
  /\ prim.type = "waiting"
  /\ \E p \in promises : ~p.cancelled /\ ~p.superseded

\* C11: when the call in flight rejects, result is retained; with no burst waiting
\* the state returns to standby (isWaiting false), with a burst waiting it returns
\* to waiting (isWaiting true) with the burst's timer untouched, and that burst's
\* trailing edge still fires when its timer runs out, invoking func with the
\* burst's last arguments whenever the options ask for a trailing call.
C11_RejectionKeepsResult ==
  [][/\ (obs'.op = "reject" /\ ~obs'.deadSettle /\ ~isUnmounted) =>
          /\ ~error'
          /\ state'.result = state.result
          /\ prim' = prim /\ timers' = timers
          /\ IF prim.type = "standby"
               THEN state'.type = "standby" /\ ~IsWaiting(state')
               ELSE /\ state'.type = "waiting" /\ IsWaiting(state')
                    /\ timers'[prim'.timerId] # Unset
     /\ (obs.rejected /\ obs.open /\ obs'.op = "timer") =>
          /\ obs'.trail = 1 /\ obs'.trailArgs = obs.lastArgs
          /\ IF trailing /\ ~(leading /\ obs'.trailCount = 1)
               THEN obs'.func = 1 /\ obs'.funcArgs = obs.lastArgs
               ELSE obs'.func = 0]_vars

C11_Witness ==
  /\ obs.op = "timer" /\ obs.rejected
  /\ obs.trail = 1 /\ obs.func = 1
  /\ state.type = "pending" /\ state.result = InitResult

\* C12: when func, invoked at a leading or trailing edge, itself calls the debounced
\* call function, the hook stays consistent with the engine: no "unexpected state"
\* error is raised, and while the burst that call opened (or extended) is waiting
\* the reducer is in waiting or waiting-pending, so isWaiting is true.
C12_ReentrantCallConsistent ==
  ~isUnmounted =>
    /\ ~error
    /\ prim.type = "waiting" => (state.type \in {"waiting", "waiting-pending"}
                                 /\ IsWaiting(state))

\* C13: teardown clears the timers of the burst it interrupts, and from then on
\* trigger, cancel and flush (and anything else) invoke no leading, trailing or
\* cancel callback and no func, schedule no timer, and leave the engine's run
\* state and the hook's state as they were.
C13_TeardownSilencesEngine ==
  [][/\ isUnmounted' => NoTimerScheduled(timers')
     /\ obs'.op = "unmount" =>
          obs'.lead = 0 /\ obs'.trail = 0 /\ obs'.cancelCb = 0 /\ obs'.func = 0
     /\ isUnmounted =>
          /\ isUnmounted'
          /\ obs'.lead = 0 /\ obs'.trail = 0 /\ obs'.cancelCb = 0 /\ obs'.func = 0
          /\ obs'.op # "timer"
          /\ prim' = prim /\ timers' = timers /\ state' = state]_vars

C13_Witness ==
  /\ isUnmounted
  /\ obs.op = "trigger" /\ obs.lead = 0
  /\ prim.type = "waiting" /\ maxWait # Undefined
  /\ NoTimerScheduled(timers)

\* C14: for every pair (state, action) the transition table marks legal, the
\* reducer with the "start" action returns exactly the table's successor:
\* start: standby -> waiting, pending -> waiting-pending; leadingCall: waiting ->
\* waiting-pending, or unchanged when skipped, waiting-pending unchanged;
\* trailingCall: waiting -> pending, or standby when skipped, waiting-pending ->
\* pending whatever skip is; fulfill and reject: pending -> standby,
\* waiting-pending -> waiting (fulfill with the new result); cancel: any state ->
\* standby; reset: standby -> standby with the given result.
C14_LegalTransitions ==
  obs.op = "reducerStart" =>
    LET f == obs.from
        a == obs.action
        To(t, r) == ~error /\ state = [type |-> t, result |-> r]
    IN /\ (a.type = "start" /\ f.type = "standby") => To("waiting", f.result)
       /\ (a.type = "start" /\ f.type = "pending") => To("waiting-pending", f.result)
       /\ (a.type = "leadingCall" /\ f.type = "waiting") =>
            To(IF a.skip THEN "waiting" ELSE "waiting-pending", f.result)
       /\ (a.type = "leadingCall" /\ f.type = "waiting-pending") =>
            To("waiting-pending", f.result)
       /\ (a.type = "trailingCall" /\ f.type = "waiting") =>
            To(IF a.skip THEN "standby" ELSE "pending", f.result)
       /\ (a.type = "trailingCall" /\ f.type = "waiting-pending") =>
            To("pending", f.result)
       /\ (a.type = "fulfill" /\ f.type = "pending") => To("standby", a.result)
       /\ (a.type = "fulfill" /\ f.type = "waiting-pending") => To("waiting", a.result)
       /\ (a.type = "reject" /\ f.type = "pending") => To("standby", f.result)
       /\ (a.type = "reject" /\ f.type = "waiting-pending") => To("waiting", f.result)
       /\ a.type = "cancel" => To("standby", f.result)
       /\ (a.type = "reset" /\ f.type = "standby") => To("standby", a.result)

C14_Witness ==
  /\ obs.op = "reducerStart"
  /\ obs.action.type = "trailingCall" /\ obs.action.skip
  /\ obs.from.type = "waiting-pending"
  /\ state.type = "pending" /\ ~error

\* C15: for every pair the transition table marks illegal the reducer with the
\* "start" action throws instead of returning a state: start on waiting or
\* waiting-pending; leadingCall or trailingCall on standby or pending; fulfill or
\* reject on standby or waiting; reset on waiting, pending or waiting-pending.
C15_IllegalTransitionsThrow ==
  obs.op = "reducerStart" =>
    LET f == obs.from
        a == obs.action
        Illegal ==
          \/ a.type = "start" /\ f.type \in {"waiting", "waiting-pending"}
          \/ a.type \in {"leadingCall", "trailingCall"} /\ f.type \in {"standby", "pending"}
          \/ a.type \in {"fulfill", "reject"} /\ f.type \in {"standby", "waiting"}
          \/ a.type = "reset" /\ f.type \in {"waiting", "pending", "waiting-pending"}
    IN Illegal => (error /\ state = f)

C15_Witness ==
  /\ obs.op = "reducerStart"
  /\ obs.action.type = "start"
  /\ obs.from.type = "waiting-pending"
  /\ error

\* C16: cancel() on an idle, mounted engine still invokes the cancel callback,
\* once, leaves the engine idle with no timer, and invokes no leading or trailing
\* callback and no func.
C16_IdleCancelStillNotifies ==
  [][(obs'.op = "cancel" /\ prim.type = "standby" /\ ~isUnmounted) =>
       /\ obs'.cancelCb = 1
       /\ prim' = Standby /\ NoTimerScheduled(timers')
       /\ obs'.lead = 0 /\ obs'.trail = 0 /\ obs'.func = 0]_vars

C16_Witness ==
  /\ ~isUnmounted
  /\ obs.op = "cancel" /\ ~obs.wasOpen
  /\ obs.cancelCb = 1 /\ prim.type = "standby"
  /\ \E p \in promises : p.cancelled

\* C17: with leading = true, when the timer of a burst of exactly one trigger
\* runs out, the trailing edge does not invoke func again: the engine returns to
\* idle, result is untouched, and the state stops waiting for the timer, so
\* isWaiting turns false unless the leading call is still in flight.
C17_SingleLeadingTriggerNoTrailingCall ==
  [][(leading /\ obs'.op = "timer" /\ obs'.trail = 1 /\ obs'.trailCount = 1) =>
       /\ obs'.func = 0
       /\ prim' = Standby /\ NoTimerScheduled(timers')
       /\ state'.result = state.result
       /\ IF NoCallInFlight(promises)
            THEN state'.type = "standby" /\ ~IsWaiting(state')
            ELSE state'.type = "pending"]_vars

C17_Witness ==
  /\ leading /\ trailing
  /\ obs.op = "timer" /\ obs.trail = 1 /\ obs.trailCount = 1
  /\ obs.func = 0
  /\ state.type = "standby" /\ state.result # InitResult

\* C18: with leading = true and trailing = false, func is invoked only by the
\* trigger that opens a burst, once and with that trigger's arguments; a later
\* trigger of the same burst invokes nothing, restarts the wait timer and keeps
\* isWaiting true; and without maxWait the timer closes the burst only after a
\* full wait without a trigger, never invoking func.
C18_LeadingOnlyCallsOnOpening ==
  [][(leading /\ ~trailing) =>
       /\ obs'.func > 0 =>
            /\ obs'.op = "trigger" /\ ~obs.open
            /\ obs'.func = 1 /\ obs'.funcArgs = obs'.opArg
       /\ (obs'.op = "trigger" /\ obs.open /\ ~isUnmounted) =>
            /\ obs'.func = 0
            /\ prim'.type = "waiting" /\ timers'[prim'.timerId] = Wait
            /\ IsWaiting(state')
       /\ (obs'.op = "timer" /\ obs.open) =>
            /\ obs'.func = 0
            /\ maxWait = Undefined => obs.sinceLast = Wait]_vars

C18_Witness ==
  /\ leading /\ ~trailing
  /\ obs.op = "trigger" /\ obs.wasOpen
  /\ obs.func = 0 /\ prim.count = 2
  /\ state.type = "waiting-pending"
  /\ \E p \in promises : ~p.cancelled

\* C19: when the call in flight fulfils while a newer burst's timer is running,
\* result becomes the fulfilled value and the state becomes waiting, not standby,
\* with the timer untouched; from waiting, isWaiting turns false only when the
\* burst closes (timer, flush, cancel or reset).
C19_FulfilDuringBurstKeepsWaiting ==
  [][/\ (obs'.op = "fulfill" /\ ~obs'.deadSettle /\ ~isUnmounted
          /\ prim.type = "waiting") =>
          /\ state' = [type |-> "waiting", result |-> obs'.opArg]
          /\ IsWaiting(state')
          /\ prim' = prim /\ timers' = timers
     /\ (state.type = "waiting" /\ ~IsWaiting(state')) =>
          obs'.op \in {"timer", "flush", "cancel", "reset"}]_vars

C19_Witness ==
  /\ ~isUnmounted
  /\ obs.op = "fulfill" /\ ~obs.deadSettle
  /\ state.type = "waiting" /\ prim.type = "waiting"
  /\ state.result = obs.opArg /\ obs.opArg # InitResult

\* C20: every trigger that opens a burst invokes the leading callback exactly
\* once, with its arguments and with active = true when leading is enabled and
\* active = false when it is not; func is invoked there exactly when the edge
\* is active, and in either case isWaiting is true when the trigger returns. A
\* trigger on an open burst does not invoke the leading callback.
C20_LeadingCallbackAlwaysFires ==
  [][obs'.op = "trigger" =>
       IF prim.type = "standby"
         THEN /\ obs'.lead = 1 /\ obs'.leadArgs = obs'.opArg
              /\ obs'.leadActive = leading
              /\ obs'.func = IF leading THEN 1 ELSE 0
              /\ ~isUnmounted =>
                   /\ IsWaiting(state')
                   /\ state'.type = IF leading \/ state.type = "pending"
                                      THEN "waiting-pending" ELSE "waiting"
         ELSE obs'.lead = 0 /\ obs'.func = 0]_vars

\* with leading disabled the opening trigger invoked the leading callback with
\* active = false: func was not invoked and isWaiting is true
C20_Witness ==
  /\ ~leading /\ ~isUnmounted
  /\ obs.op = "trigger" /\ ~obs.wasOpen
  /\ obs.lead = 1 /\ ~obs.leadActive /\ obs.func = 0
  /\ state.type = "waiting" /\ IsWaiting(state)

\* C21: at every moment at most one invocation of func is live (its settlement
\* can still change the state): an operation that starts an invocation leaves
\* only that invocation live, every earlier unsettled one being cancelled.
LiveCalls(ps) == {p \in ps : ~p.cancelled}

C21_AtMostOneLiveCall ==
  [][/\ Cardinality(LiveCalls(promises')) <= 1
     /\ obs'.func > 0 =>
          /\ obs'.func = 1
          /\ \A p \in promises' : p.superseded => p.cancelled
          /\ \A p \in LiveCalls(promises') : p.id = cancelAsyncCallRef']_vars

\* C25: the result held in the call state is changed only by a fulfill action
\* (to the fulfilled value) or a reset action (to the given value); start,
\* trigger, leadingCall, trailingCall, reject and cancel preserve it, as does an
\* action the reducer refuses, so result is never cleared implicitly.
C25_OnlyFulfillAndResetChangeResult ==
  obs.op \in {"reducer", "reducerStart"} =>
    state.result = IF ~error /\ obs.action.type \in {"fulfill", "reset"}
                     THEN obs.action.result
                     ELSE obs.from.result

C25_Witness ==
  /\ obs.op = "reducerStart" /\ ~error
  /\ obs.action.type = "cancel"
  /\ obs.from = [type |-> "waiting-pending", result |-> MaxVal]
  /\ state = [type |-> "standby", result |-> MaxVal]

\* C26: flush on an idle engine invokes no callback (neither leading, trailing
\* nor cancel), so neither func nor the reducer is reached, and it leaves the
\* engine idle with no timer scheduled: nothing of the hook's state changes.
C26_FlushOnIdleIsNoOp ==
  [][(obs'.op = "flush" /\ prim.type = "standby") =>
       /\ obs'.lead = 0 /\ obs'.trail = 0 /\ obs'.cancelCb = 0
       /\ obs'.func = 0 /\ obs'.dispatched = 0
       /\ prim' = Standby /\ NoTimerScheduled(timers')
       /\ UNCHANGED progVars]_vars

C26_Witness ==
  /\ ~isUnmounted
  /\ obs.op = "flush" /\ ~obs.wasOpen
  /\ obs.trail = 0 /\ prim = Standby
  /\ state.type = "pending" /\ \E p \in promises : ~p.cancelled

\* C24: the count handed to the trailing callback is the total number of
\* trigger calls the burst received, the opening one included (1 for a burst of
\* a single trigger), and the counting starts again at 1 with every new burst.
C24_CountIncludesOpeningTrigger ==
  [][/\ obs'.trail > 0 =>
          /\ obs'.trailCount = obs.triggers
          /\ obs'.trailCount >= 1
     /\ (obs'.op = "trigger" /\ ~isUnmounted) =>
          prim'.count = IF obs.open THEN prim.count + 1 ELSE 1]_vars

C24_Witness ==
  /\ ~leading
  /\ obs.op = "timer" /\ obs.trail = 1 /\ obs.trailCount = MaxCount
  /\ obs.func = 1 /\ \E p \in promises : p.superseded

\* C23: in the first revision of the engine the count handed to the trailing
\* callback is the number of triggers the burst received after the one that
\* opened it: 0 for a burst of a single trigger, 2 for a burst of three.
C23_CountExcludesOpeningTrigger ==
  [][/\ obs'.trail > 0 =>
          /\ obs'.trail = 1
          /\ obs.triggers >= 1
          /\ obs'.trailCount = obs.triggers - 1
     /\ obs'.op = "trigger" =>
          prim'.count = IF obs.open THEN prim.count + 1 ELSE 0]_vars

C23_Witness ==
  /\ obs.op = "timer" /\ obs.trail = 1
  /\ obs.trailCount = MaxCount /\ obs.trailArgs = MaxArg
  /\ prim = Standby

\* C27: teardown cancels the call in flight and dispatches nothing to the
\* reducer, and the settlement of a call after teardown dispatches nothing
\* either, so it changes neither result nor isWaiting.
C27_TeardownCancelsCallSilently ==
  [][/\ obs'.op = "unmount" =>
          /\ NoCallInFlight(promises') /\ cancelAsyncCallRef' = Undefined
          /\ obs'.dispatched = 0
          /\ state' = state
     /\ (isUnmounted /\ obs'.op \in {"fulfill", "reject"}) =>
          /\ obs'.dispatched = 0
          /\ state' = state]_vars

\* C28: a trigger that does not itself invoke func leaves the call in flight
\* untouched; a live call becomes cancelled only in an operation that starts the
\* next invocation of func, or in cancel, reset or teardown, and the start of the
\* next invocation always cancels it; until then its fulfilment still sets result.
C28_TriggerAloneDoesNotCancel ==
  [][/\ (obs'.op = "trigger" /\ obs'.func = 0) =>
          /\ promises' = promises
          /\ cancelAsyncCallRef' = cancelAsyncCallRef
     /\ obs'.op \notin {"fulfill", "reject"} =>
          \A p \in LiveCalls(promises) :
            LET cancelledNow == \E q \in promises' : q.id = p.id /\ q.cancelled
            IN /\ cancelledNow => (obs'.func > 0 \/ obs'.op \in {"cancel", "reset", "unmount"})
               /\ obs'.func > 0 => cancelledNow
     /\ (obs'.op = "fulfill" /\ ~obs'.deadSettle) => state'.result = obs'.opArg]_vars

C28_Witness ==
  /\ ~leading
  /\ obs.op = "trigger" /\ ~obs.wasOpen /\ obs.func = 0
  /\ state.type = "waiting-pending"
  /\ \E p \in LiveCalls(promises) : p.id = cancelAsyncCallRef

\* C29: bursts of one engine never overlap and each closes exactly once. The
\* leading callback is invoked only by a trigger on an idle engine and opens a
\* burst; the trailing callback is invoked only by a timer or flush on an open
\* burst and closes it; an open burst closes only by its trailing callback or by
\* a cancel, never by both, and no operation invokes two edge callbacks.
C29_BurstsAlternate ==
  [][~isUnmounted =>
       /\ obs'.lead + obs'.trail <= 1
       /\ obs'.lead = 1 =>
            /\ obs'.op = "trigger"
            /\ ~obs.open /\ obs'.open
            /\ prim.type = "standby" /\ prim'.type = "waiting"
       /\ obs'.trail = 1 =>
            /\ obs'.op \in {"timer", "flush"}
            /\ obs.open /\ ~obs'.open
            /\ prim.type = "waiting" /\ prim' = Standby
            /\ obs'.cancelCb = 0
       /\ (prim.type = "standby" /\ prim'.type = "waiting") => obs'.lead = 1
       /\ (prim.type = "waiting" /\ prim'.type = "standby") =>
            IF obs'.op \in {"cancel", "reset"}
              THEN obs'.trail = 0 /\ obs'.cancelCb = 1
              ELSE obs'.trail = 1
       /\ (prim.type = "waiting") = obs.open]_vars

C29_Witness ==
  /\ leading /\ ~isUnmounted
  /\ obs.op = "cancel" /\ obs.wasOpen /\ ~obs.open
  /\ obs.cancelCb = 1 /\ obs.trail = 0 /\ obs.lead = 0
  /\ prim = Standby
  /\ \E p \in promises : p.cancelled

\* C30: before teardown, an idle engine has no timer scheduled; an active one
\* has its wait timer scheduled, its maxWait timer scheduled exactly when
\* maxWait is configured, and no other timer; so no timer outlives its burst.
C30_TimersMatchEngineState ==
  ~isUnmounted =>
    IF prim.type = "standby"
      THEN NoTimerScheduled(timers)
      ELSE /\ prim.timerId \in TimerIds /\ timers[prim.timerId] # Unset
           /\ (prim.maxWaitTimerId # Undefined) = (maxWait # Undefined)
           /\ maxWait # Undefined =>
                /\ prim.maxWaitTimerId \in TimerIds \ {prim.timerId}
                /\ timers[prim.maxWaitTimerId] # Unset
           /\ \A i \in TimerIds :
                timers[i] # Unset => i \in {prim.timerId, prim.maxWaitTimerId}

C30_Witness ==
  /\ ~isUnmounted /\ maxWait # Undefined
  /\ obs.op = "trigger" /\ obs.wasOpen /\ prim.type = "waiting" /\ prim.count = 2
  /\ timers[prim.timerId] = Wait
  /\ timers[prim.maxWaitTimerId] < MaxWaitVal

\* C22: once triggers stop, with timers running and every promise settling,
\* isWaiting eventually becomes false, whether the calls fulfil or reject, and
\* once false it turns true again only by a trigger. From every state in which
\* isWaiting is true a state follows in which it is false or a new trigger has
\* just arrived (or the component was torn down, which freezes what the hook
\* returned).
C22_WaitingEventuallyClears ==
  /\ [][(~IsWaiting(state) /\ IsWaiting(state')) => obs'.op = "trigger"]_vars
  /\ (IsWaiting(state) /\ ~isUnmounted)
       ~> (~IsWaiting(state) \/ isUnmounted \/ obs.op = "trigger")

C22_Witness ==
  /\ ~isUnmounted
  /\ obs.op = "reject" /\ ~obs.deadSettle
  /\ ~IsWaiting(state) /\ prim = Standby /\ promises = {}

\* C31: a trigger on an already active burst changes, of the engine, only the
\* latest arguments, the trigger count and the wait timer: the leading callback
\* is not invoked, the maxWait timer is the same timer with the same remaining
\* delay, and at every moment of a burst it is still due maxWait after the
\* trigger that opened the burst.
C31_RetriggerKeepsMaxWaitTimer ==
  [][/\ (obs'.op = "trigger" /\ prim.type = "waiting" /\ ~isUnmounted) =>
          /\ obs'.lead = 0 /\ obs'.trail = 0 /\ obs'.cancelCb = 0
          /\ prim' = [prim EXCEPT !.args = obs'.opArg, !.count = prim.count + 1,
                                  !.timerId = prim'.timerId]
          /\ timers'[prim'.timerId] = Wait
          /\ \A i \in TimerIds \ {prim.timerId, prim'.timerId} : timers'[i] = timers[i]
          /\ prim.maxWaitTimerId \in TimerIds =>
               /\ prim.maxWaitTimerId \notin {prim.timerId, prim'.timerId}
               /\ timers'[prim.maxWaitTimerId] = timers[prim.maxWaitTimerId]
     /\ (prim'.type = "waiting" /\ maxWait # Undefined /\ ~isUnmounted') =>
          obs'.sinceOpen + timers'[prim'.maxWaitTimerId] = maxWait]_vars

C31_Witness ==
  /\ ~isUnmounted /\ maxWait # Undefined
  /\ obs.op = "trigger" /\ obs.wasOpen /\ obs.lead = 0
  /\ prim.type = "waiting" /\ prim.count = MaxCount /\ prim.args = obs.opArg
  /\ obs.sinceOpen = 2 /\ timers[prim.maxWaitTimerId] = MaxWaitVal - 2
  /\ timers[prim.timerId] = Wait

\* C32: when the trailing callback has fired because maxWait elapsed (the wait
\* timer was not yet due), the engine is idle with no timer scheduled, and the
\* next trigger opens a new burst: the leading callback is invoked with its
\* arguments, a wait timer of wait and a maxWait timer of the full maxWait are
\* scheduled from that trigger, and the count starts again at 1.
C32_NewBurstAfterMaxWait ==
  [][/\ MaxWaitFired' => (prim' = Standby /\ NoTimerScheduled(timers'))
     /\ (MaxWaitFired /\ obs'.op = "trigger") =>
          /\ obs'.lead = 1 /\ obs'.leadArgs = obs'.opArg
          /\ prim'.type = "waiting" /\ prim'.args = obs'.opArg /\ prim'.count = 1
          /\ prim'.timerId # prim'.maxWaitTimerId
          /\ timers'[prim'.timerId] = Wait
          /\ timers'[prim'.maxWaitTimerId] = maxWait
          /\ \A i \in TimerIds \ {prim'.timerId, prim'.maxWaitTimerId} : timers'[i] = Unset
          /\ obs'.sinceOpen = 0 /\ obs'.triggers = 1]_vars

C32_Witness ==
  /\ maxWait # Undefined /\ ~isUnmounted
  /\ obs.op = "trigger" /\ obs.afterMaxWait /\ obs.lead = 1
  /\ prim.type = "waiting" /\ prim.count = 1
  /\ timers[prim.maxWaitTimerId] = maxWait
  /\ timers[prim.timerId] = Wait

\* C33: a trigger issued from inside a leading or trailing callback
\* finds the engine's transition complete. Inside the trailing callback the run
\* state is already standby and both timers are cleared, so the trigger opens a
\* new burst; inside the leading callback the burst is already stored with its
\* timers scheduled, so the trigger is an ordinary trigger on that burst. After
\* the operation the timers again match the run state.
C33_ReentrantTriggerSeesCompleteTransition ==
  [][obs'.reentered =>
       /\ IF obs'.trail > 0
            THEN /\ obs'.reentryPrim = Standby
                 /\ NoTimerScheduled(obs'.reentryTimers)
                 /\ obs'.lead = 1 /\ obs'.leadArgs = obs'.reentryArgs
                 /\ prim'.type = "waiting" /\ prim'.count = 1
            ELSE /\ obs'.op = "trigger" /\ obs'.lead = 1
                 /\ obs'.reentryPrim.type = "waiting"
                 /\ obs'.reentryPrim.args = obs'.opArg /\ obs'.reentryPrim.count = 1
                 /\ obs'.reentryTimers[obs'.reentryPrim.timerId] = Wait
                 /\ maxWait # Undefined =>
                      obs'.reentryTimers[obs'.reentryPrim.maxWaitTimerId] = maxWait
                 /\ prim'.type = "waiting" /\ prim'.count = 2
                 /\ prim'.maxWaitTimerId = obs'.reentryPrim.maxWaitTimerId
       /\ prim'.args = obs'.reentryArgs
       /\ timers'[prim'.timerId] = Wait
       /\ \A i \in TimerIds :
            timers'[i] # Unset => i \in {prim'.timerId, prim'.maxWaitTimerId}]_vars

C33_Witness ==
  /\ obs.reentered /\ obs.op = "timer" /\ obs.trail = 1 /\ obs.lead = 1
  /\ obs.reentryPrim = Standby
  /\ prim.type = "waiting" /\ prim.count = 1 /\ prim.args = obs.reentryArgs
  /\ timers[prim.timerId] = Wait

\* C34: when func calls cancel (or reset) of its own hook while it is being
\* invoked, the invocation that is just starting counts as cancelled: the
\* operation ends with no call in flight, isWaiting false and the reducer not
\* handed an illegal action, so a later settlement of that invocation changes
\* nothing.
C34_SelfCancelledCallIsDead ==
  [][obs'.selfCancel =>
       /\ NoCallInFlight(promises')
       /\ ~IsWaiting(state')
       /\ ~error']_vars

\* ---------------------------------------------------------------- useDebouncedCall
\* The synchronous hook keeps result and isWaiting in two state cells; here they
\* are the fields of state: isWaiting is type = "waiting", result is result.
\* useDebouncedState is the same hook with setState in the place of func, which
\* cannot call back into the hook. The setter of a state cell has no effect
\* once the component is unmounted.
setIsWaiting(w, b) ==
  IF w.isUnmounted THEN w
  ELSE [w EXCEPT !.state.type = IF b THEN "waiting" ELSE "standby"]

setResult(w, result) ==
  IF w.isUnmounted THEN w ELSE [w EXCEPT !.state.result = result]

RECURSIVE triggerRefSync(_, _)

\* options.func of the synchronous hook: it returns its argument; while it runs
\* it may call the debounced call function the hook returned (once)
funcSync(w, args) ==
  LET w1 == ObsFunc(w, args)
  IN IF w1.reenter = NoReentry THEN w1
     ELSE triggerRefSync(ObsReentry(w1), w1.reenter)

callRefSync(w, args) ==
  LET w1 == funcSync(w, args)
  IN setResult([w1 EXCEPT !.prevArgs = args], args)

leadingCallbackSync(w, args) ==
  LET w1 == setIsWaiting(w, TRUE)
  IN IF leading /\ testShouldCallRef(w1, args) THEN callRefSync(w1, args) ELSE w1

\* slip: func is called before the waiting indicator is cleared
trailingCallbackSync_callFirst(w, args, count) ==
  LET w1 == IF trailing /\ ~(leading /\ count = 1) /\ testShouldCallRef(w, args)
              THEN callRefSync(w, args) ELSE w
  IN setIsWaiting(w1, FALSE)

trailingCallbackSync(w, args, count) ==
  LET w1 == setIsWaiting(w, FALSE)
  IN IF trailing /\ ~(leading /\ count = 1) /\ testShouldCallRef(w1, args)
       THEN callRefSync(w1, args) ELSE w1

cancelCallbackSync(w) == setIsWaiting(w, FALSE)

\* the engine, driving the callbacks of the synchronous hook
flushRefSync(w) ==
  IF w.isUnmounted THEN w
  ELSE IF w.prim.type = "standby" THEN w
  ELSE LET p == w.prim
           w1 == [w EXCEPT !.timers = clearTimeout(clearTimeout(@, p.timerId),
                                                   p.maxWaitTimerId),
                           !.prim = Standby]
       IN trailingCallbackSync(ObsTrailing(w1, p.args, p.count), p.args, p.count)

\* the hook passes the engine no trigger callback: a trigger opens a burst, or
\* extends the open one, and tells the hook nothing more
triggerRefSync(w, args) ==
  IF w.isUnmounted THEN w
  ELSE IF w.prim.type = "standby"
    THEN LET timerId == NewTimerId(w.timers)
             t1 == setTimeout(w.timers, timerId, Wait)
             maxWaitTimerId == IF maxWait # Undefined THEN NewTimerId(t1)
                                                      ELSE Undefined
             t2 == IF maxWait # Undefined
                     THEN setTimeout(t1, maxWaitTimerId, maxWait)
                     ELSE t1
             w1 == [w EXCEPT !.timers = t2,
                             !.prim = [type |-> "waiting", timerId |-> timerId,
                                       maxWaitTimerId |-> maxWaitTimerId,
                                       args |-> args, count |-> 1]]
         IN leadingCallbackSync(ObsLeading(w1, args), args)
    ELSE LET p == w.prim
             t1 == clearTimeout(w.timers, p.timerId)
             timerId == NewTimerId(t1)
         IN [w EXCEPT !.timers = setTimeout(t1, timerId, Wait),
                      !.prim = [type |-> "waiting", timerId |-> timerId,
                                maxWaitTimerId |-> p.maxWaitTimerId,
                                args |-> args, count |-> p.count + 1]]

cancelRefSync(w) ==
  IF w.isUnmounted THEN w
  ELSE LET p == w.prim
           w1 == IF p.type = "waiting"
                   THEN [w EXCEPT !.timers = clearTimeout(clearTimeout(@, p.timerId),
                                                          p.maxWaitTimerId),
                                  !.prim = Standby]
                   ELSE w
       IN cancelCallbackSync(ObsCancel(w1))

resetRefSync(w, result) ==
  setResult([cancelRefSync(w) EXCEPT !.prevArgs = Undefined], result)

SyncTrigger(args) ==
  /\ prim.type = "waiting" => prim.count < MaxCount
  /\ LET w0 == StartOp("trigger", args)
         w1 == IF isUnmounted THEN w0
               ELSE [w0 EXCEPT !.obs.lastArgs = args, !.obs.sinceLast = 0,
                               !.obs.triggers = IF obs.open THEN @ + 1 ELSE 1]
     IN Commit(triggerRefSync(w1, args))

SyncCancel ==
  LET w0 == StartOp("cancel", 0)
  IN Commit(cancelRefSync(IF isUnmounted THEN w0 ELSE [w0 EXCEPT !.obs = ObsClose(@)]))

SyncReset(result) ==
  LET w0 == StartOp("reset", result)
  IN Commit(resetRefSync(IF isUnmounted THEN w0 ELSE [w0 EXCEPT !.obs = ObsClose(@)],
                         result))

SyncFlush == Commit(flushRefSync(StartOp("flush", 0)))

SyncTimerExpire(id) ==
  /\ timers[id] = 0
  /\ LET w0 == StartOp("timer", id)
     IN Commit(flushRefSync([w0 EXCEPT !.timers[id] = Unset]))

SyncUnmount ==
  /\ ~isUnmounted
  /\ LET w0 == StartOp("unmount", 0)
     IN Commit(primUnmount([w0 EXCEPT !.obs = ObsClose(@)]))

\* the owner passes a func that, the next time it runs, calls the debounced
\* call function
SyncFuncReenters(args) ==
  /\ ~isUnmounted
  /\ reenter = NoReentry
  /\ Commit([StartOp("func", args) EXCEPT !.reenter = args])

NextSync ==
  \/ \E args \in Args : SyncTrigger(args)
  \/ SyncCancel
  \/ \E result \in Values : SyncReset(result)
  \/ SyncFlush
  \/ \E id \in TimerIds : SyncTimerExpire(id)
  \/ Tick
  \/ SyncUnmount
  \/ \E args \in Args : SyncFuncReenters(args)

SpecSync == Init /\ [][NextSync]_vars

\* C35: in the synchronous hook, after every operation of a mounted component
\* (debounced call, cancel, reset, flush, timer expiry, and a debounced call
\* made by func while it runs), isWaiting is true exactly when the engine has
\* an active burst.
C35_IsWaitingTracksBurst ==
  ~isUnmounted => (IsWaiting(state) <=> prim.type = "waiting")

\* func, run by the trailing callback of a timer expiry, called the debounced
\* call function: a new burst is open and isWaiting is true
C35_Witness ==
  /\ ~isUnmounted
  /\ obs.op = "timer" /\ obs.trail = 1 /\ obs.func >= 1 /\ obs.reentered
  /\ prim.type = "waiting" /\ prim.args = obs.reentryArgs
  /\ IsWaiting(state)

\* C36: with shouldCall given and the arguments of an earlier invocation
\* remembered, an edge invokes func only if shouldCall(previous, args) is true.
\* When it is false the edge is skipped: func is not invoked, result and the
\* remembered arguments are unchanged, no call is started or cancelled, and at
\* the trailing edge the reducer stops waiting for the burst: it is in standby,
\* or in pending while an earlier call is still in flight.
C36_ShouldCallFalseSkips ==
  [][(shouldCall /\ prevArgs # Undefined /\ ~isUnmounted) =>
       /\ obs'.func >= 1 => ShouldCallFn(prevArgs, obs'.funcArgs)
       /\ (obs'.lead = 1 /\ ~ShouldCallFn(prevArgs, obs'.leadArgs)) =>
            /\ obs'.func = 0
            /\ state'.result = state.result /\ prevArgs' = prevArgs
            /\ promises' = promises /\ cancelAsyncCallRef' = cancelAsyncCallRef
            /\ IsWaiting(state')
       /\ (obs'.trail = 1 /\ ~ShouldCallFn(prevArgs, obs'.trailArgs)) =>
            /\ obs'.func = 0
            /\ state'.result = state.result /\ prevArgs' = prevArgs
            /\ promises' = promises /\ cancelAsyncCallRef' = cancelAsyncCallRef
            /\ state'.type = IF state.type = "waiting-pending" THEN "pending"
                                                               ELSE "standby"]_vars

\* a burst whose trailing edge would have called func closed on the arguments
\* of the previous invocation: func was not invoked and nothing is waiting
C36_Witness ==
  /\ shouldCall /\ trailing /\ ~leading /\ ~isUnmounted
  /\ obs.op = "timer" /\ obs.trail = 1 /\ obs.func = 0
  /\ prevArgs # Undefined /\ ~ShouldCallFn(prevArgs, obs.trailArgs)
  /\ state.type = "standby" /\ promises = {}

\* C37: the arguments remembered for shouldCall are forgotten when the call
\* is rejected, when cancel finds a call in flight, and on reset; and with
\* nothing remembered an edge the options allow invokes func whatever its
\* arguments, also those shouldCall would decline after the last invocation.
C37_MemoryClearedSoFuncIsCalledAgain ==
  [][/\ (obs'.op = "reject" /\ ~obs'.deadSettle) => prevArgs' = Undefined
     /\ (obs'.op = "cancel" /\ ~isUnmounted /\ cancelAsyncCallRef # Undefined) =>
          prevArgs' = Undefined /\ NoCallInFlight(promises')
     /\ obs'.op = "reset" => prevArgs' = Undefined
     /\ (prevArgs = Undefined /\ ~isUnmounted) =>
          /\ (obs'.lead = 1 /\ leading) =>
               obs'.func = 1 /\ obs'.funcArgs = obs'.leadArgs
          /\ (obs'.trail = 1 /\ trailing /\ ~(leading /\ obs'.trailCount = 1)) =>
               obs'.func = 1 /\ obs'.funcArgs = obs'.trailArgs]_vars

\* after the memory was cleared, a closing burst invoked func with the very
\* arguments of the invocation before, which shouldCall declines
C37_Witness ==
  /\ shouldCall /\ ~isUnmounted
  /\ obs.op = "timer" /\ obs.trail = 1 /\ obs.func = 1
  /\ obs.prevFuncArgs # 0 /\ ~ShouldCallFn(obs.prevFuncArgs, obs.funcArgs)
  /\ prevArgs = obs.funcArgs


\* ---------------------------------------------------------------- useDebouncedPrim alone
\* The engine with an owner that is anything: it passes the four callbacks the
\* options require, and what they do leaves the engine's data alone, except
\* that a leading or trailing callback may call trigger (once, with the
\* arguments in reenter).
RECURSIVE triggerRefPrim(_, _)

triggerCallbackPrim(w) == w

leadingCallbackPrim(w, args) ==
  IF w.reenter = NoReentry THEN w
  ELSE triggerRefPrim(ObsReentry(w), w.reenter)

trailingCallbackPrim(w, args, count) ==
  IF w.reenter = NoReentry THEN w
  ELSE triggerRefPrim(ObsReentry(w), w.reenter)

cancelCallbackPrim(w) == w

\* slip: the trailing callback is invoked first, the timers are cleared and the
\* run state is returned to standby only after it
flushRefPrim_callbackFirst(w) ==
  IF w.isUnmounted THEN w
  ELSE IF w.prim.type = "standby" THEN w
  ELSE LET p == w.prim
           w1 == trailingCallbackPrim(ObsTrailing(w, p.args, p.count), p.args, p.count)
       IN [w1 EXCEPT !.timers = clearTimeout(clearTimeout(@, p.timerId),
                                             p.maxWaitTimerId),
                     !.prim = Standby]

flushRefPrim(w) ==
  IF w.isUnmounted THEN w
  ELSE IF w.prim.type = "standby" THEN w
  ELSE LET p == w.prim
           w1 == [w EXCEPT !.timers = clearTimeout(clearTimeout(@, p.timerId),
                                                   p.maxWaitTimerId),
                           !.prim = Standby]
       IN trailingCallbackPrim(ObsTrailing(w1, p.args, p.count), p.args, p.count)

triggerRefPrim(w, args) ==
  IF w.isUnmounted THEN w
  ELSE LET w0 == triggerCallbackPrim(w)
       IN IF w0.prim.type = "standby"
            THEN LET timerId == NewTimerId(w0.timers)
                     t1 == setTimeout(w0.timers, timerId, Wait)
                     maxWaitTimerId == IF maxWait # Undefined THEN NewTimerId(t1)
                                                              ELSE Undefined
                     t2 == IF maxWait # Undefined
                             THEN setTimeout(t1, maxWaitTimerId, maxWait)
                             ELSE t1
                     w1 == [w0 EXCEPT !.timers = t2,
                                      !.prim = [type |-> "waiting", timerId |-> timerId,
                                                maxWaitTimerId |-> maxWaitTimerId,
                                                args |-> args, count |-> 1]]
                 IN leadingCallbackPrim(ObsLeading(w1, args), args)
            ELSE LET p == w0.prim
                     t1 == clearTimeout(w0.timers, p.timerId)
                     timerId == NewTimerId(t1)
                 IN [w0 EXCEPT !.timers = setTimeout(t1, timerId, Wait),
                               !.prim = [type |-> "waiting", timerId |-> timerId,
                                         maxWaitTimerId |-> p.maxWaitTimerId,
                                         args |-> args, count |-> p.count + 1]]

cancelRefPrim(w) ==
  IF w.isUnmounted THEN w
  ELSE LET p == w.prim
           w1 == IF p.type = "waiting"
                   THEN [w EXCEPT !.timers = clearTimeout(clearTimeout(@, p.timerId),
                                                          p.maxWaitTimerId),
                                  !.prim = Standby]
                   ELSE w
       IN cancelCallbackPrim(ObsCancel(w1))

PrimTrigger(args) ==
  /\ prim.type = "waiting" => prim.count < MaxCount
  /\ LET w0 == StartOp("trigger", args)
         w1 == IF isUnmounted THEN w0
               ELSE [w0 EXCEPT !.obs.lastArgs = args, !.obs.sinceLast = 0,
                               !.obs.triggers = IF obs.open THEN @ + 1 ELSE 1]
     IN Commit(triggerRefPrim(w1, args))

PrimCancel ==
  LET w0 == StartOp("cancel", 0)
  IN Commit(cancelRefPrim(IF isUnmounted THEN w0 ELSE [w0 EXCEPT !.obs = ObsClose(@)]))

PrimFlush == Commit(flushRefPrim(StartOp("flush", 0)))

PrimTimerExpire(id) ==
  /\ timers[id] = 0
  /\ LET w0 == StartOp("timer", id)
     IN Commit(flushRefPrim([w0 EXCEPT !.timers[id] = Unset]))

PrimUnmount ==
  /\ ~isUnmounted
  /\ LET w0 == StartOp("unmount", 0)
     IN Commit(primUnmount([w0 EXCEPT !.obs = ObsClose(@)]))

\* the owner passes callbacks of which the next leading or trailing one to run
\* calls trigger
CallbackReenters(args) ==
  /\ ~isUnmounted
  /\ reenter = NoReentry
  /\ Commit([StartOp("callback", args) EXCEPT !.reenter = args])

\* the options of the hooks above play no part
InitPrim == Init /\ ~leading /\ trailing /\ ~shouldCall

NextPrim ==
  \/ \E args \in Args : PrimTrigger(args)
  \/ PrimCancel
  \/ PrimFlush
  \/ \E id \in TimerIds : PrimTimerExpire(id)
  \/ Tick
  \/ PrimUnmount
  \/ \E args \in Args : CallbackReenters(args)

SpecPrim == InitPrim /\ [][NextPrim]_vars

\* ---------------------------------------------------------------- callback references
\* slip: the references keep the callbacks of the first render
assignCallbackRefs_once(w, options) == w

\* every render stores the callbacks the owner passes in the reference cells
assignCallbackRefs(w, options) == [w EXCEPT !.callbackRefs = options]

\* the owner renders again, with callbacks of its choice
Rerender(options) ==
  /\ ~error
  /\ ~isUnmounted
  /\ options # obs.passed
  /\ LET w0 == StartOp("render", 0)
     IN Commit(assignCallbackRefs([w0 EXCEPT !.obs.passed = options], options))

\* the engine, and an owner that renders again
NextRerender ==
  \/ PrimTrigger(MaxArg)
  \/ PrimCancel
  \/ PrimFlush
  \/ \E id \in TimerIds : PrimTimerExpire(id)
  \/ Tick
  \/ PrimUnmount
  \/ \E options \in Callbacks : Rerender(options)

SpecRerender == InitPrim /\ [][NextRerender]_vars

\* C38: every invocation of the leading, trailing or cancel callback uses the
\* callback the owner passed last before the firing: after a replacement every
\* later firing, also one scheduled by a trigger made before it, invokes the
\* new callback and never the replaced one.
C38_FiringUsesCurrentCallback ==
  [][/\ obs'.lead >= 1 => obs'.leadBy = obs.passed.leading
     /\ obs'.trail >= 1 => obs'.trailBy = obs.passed.trailing
     /\ obs'.cancelCb >= 1 => obs'.cancelBy = obs.passed.cancel]_vars

\* a timer scheduled while one trailing callback was referenced expired after
\* the owner had replaced it, and invoked the new one
C38_Witness ==
  /\ obs.op = "timer" /\ obs.trail = 1
  /\ obs.trailBy # obs.openTrailBy
  /\ obs.trailBy = obs.passed.trailing

\* ---------------------------------------------------------------- usePrimitiveDebounce
\* The later revision of the hooks: the engine is a Debounce, held by
\* usePrimitiveDebounce, which passes it wrappers that read the callback
\* references. The owner is useDebouncedAsyncCall in its revision with the
\* "start" action, or anything that passes callbacks of its own.
dispatchStart(w, action) ==
  LET w0 == [w EXCEPT !.obs.dispatched = @ + 1]
  IN IF w0.isUnmounted \/ w0.error THEN w0
     ELSE LET next == reducerStart(w0.state, action)
          IN IF next.type = "unexpected"
               THEN [w0 EXCEPT !.error = TRUE]
               ELSE [w0 EXCEPT !.state = next]

callStart(w, args) ==
  LET w1 == IF w.cancelAsyncCallRef # Undefined
              THEN [w EXCEPT !.promises = cancelAsyncCall(@, w.cancelAsyncCallRef),
                             !.cancelAsyncCallRef = Undefined]
              ELSE w
      w2 == ObsFunc(w1, args)
      id == NewPromiseId(w2.promises)
  IN [w2 EXCEPT !.promises = Supersede(@) \cup
                               {[id |-> id, cancelled |-> FALSE, superseded |-> FALSE]},
                !.cancelAsyncCallRef = id]

onFulfilledStart(w, result) ==
  dispatchStart([w EXCEPT !.cancelAsyncCallRef = Undefined], Act("fulfill", FALSE, result))

onRejectedStart(w) ==
  dispatchStart([w EXCEPT !.cancelAsyncCallRef = Undefined], Act("reject", FALSE, 0))

\* slip: the burst is reported to the reducer only when the edge is active
leadingCallbackStart_startWhenActive(w, args, active) ==
  IF active
    THEN callStart(dispatchStart(dispatchStart(w, Act("start", FALSE, 0)),
                                 Act("leadingCall", FALSE, 0)), args)
    ELSE dispatchStart(w, Act("leadingCall", TRUE, 0))

leadingCallbackStart(w, args, active) ==
  LET w1 == dispatchStart(w, Act("start", FALSE, 0))
  IN IF active
       THEN callStart(dispatchStart(w1, Act("leadingCall", FALSE, 0)), args)
       ELSE dispatchStart(w1, Act("leadingCall", TRUE, 0))

trailingCallbackStart(w, args, active) ==
  IF active
    THEN callStart(dispatchStart(w, Act("trailingCall", FALSE, 0)), args)
    ELSE dispatchStart(w, Act("trailingCall", TRUE, 0))

cancelCallbackStart(w) ==
  LET w1 == IF w.cancelAsyncCallRef # Undefined
              THEN [w EXCEPT !.promises = cancelAsyncCall(@, w.cancelAsyncCallRef),
                             !.cancelAsyncCallRef = Undefined]
              ELSE w
  IN dispatchStart(w1, Act("cancel", FALSE, 0))

\* the wrappers usePrimitiveDebounce passes to Debounce: each reads its
\* reference and calls what it holds, a callback of the hook above or one of
\* another owner, which does nothing to the hook or the engine
leadingCallbackWrapper(w, args, active) ==
  IF w.callbackRefs.leading = HookCallback THEN leadingCallbackStart(w, args, active)
  ELSE w

trailingCallbackWrapper(w, args, active) ==
  IF w.callbackRefs.trailing = HookCallback THEN trailingCallbackStart(w, args, active)
  ELSE w

cancelCallbackWrapper(w) ==
  IF w.callbackRefs.cancel = HookCallback THEN cancelCallbackStart(w)
  ELSE w

\* Debounce: trigger, cancel and flush of the engine, which tells its callbacks
\* whether the edge is active. It is not torn down when the component goes.
debounceTrigger(w, args) ==
  IF w.prim.type = "standby"
    THEN LET timerId == NewTimerId(w.timers)
             t1 == setTimeout(w.timers, timerId, Wait)
             maxWaitTimerId == IF maxWait # Undefined THEN NewTimerId(t1)
                                                      ELSE Undefined
             t2 == IF maxWait # Undefined
                     THEN setTimeout(t1, maxWaitTimerId, maxWait)
                     ELSE t1
             w1 == [w EXCEPT !.timers = t2,
                             !.prim = [type |-> "waiting", timerId |-> timerId,
                                       maxWaitTimerId |-> maxWaitTimerId,
                                       args |-> args, count |-> 1]]
         IN leadingCallbackWrapper([ObsLeading(w1, args) EXCEPT !.obs.leadActive = leading],
                                   args, leading)
    ELSE LET p == w.prim
             t1 == clearTimeout(w.timers, p.timerId)
             timerId == NewTimerId(t1)
         IN [w EXCEPT !.timers = setTimeout(t1, timerId, Wait),
                      !.prim = [type |-> "waiting", timerId |-> timerId,
                                maxWaitTimerId |-> p.maxWaitTimerId,
                                args |-> args, count |-> p.count + 1]]

debounceCancel(w) ==
  LET p == w.prim
      w1 == IF p.type = "waiting"
              THEN [w EXCEPT !.timers = clearTimeout(clearTimeout(@, p.timerId),
                                                     p.maxWaitTimerId),
                             !.prim = Standby]
              ELSE w
  IN cancelCallbackWrapper(ObsCancel(w1))

debounceFlush(w) ==
  IF w.prim.type = "standby" THEN w
  ELSE LET p == w.prim
           w1 == [w EXCEPT !.timers = clearTimeout(clearTimeout(@, p.timerId),
                                                   p.maxWaitTimerId),
                           !.prim = Standby]
       IN trailingCallbackWrapper(ObsTrailing(w1, p.args, p.count), p.args,
                                  trailing /\ ~(leading /\ p.count = 1))

\* the effect of a render: the references take the callbacks that render passed
assignPrimitiveCallbackRefs(w, options) ==
  [w EXCEPT !.callbackRefs.leading = options.leading,
            !.callbackRefs.trailing = options.trailing,
            !.callbackRefs.cancel = options.cancel]

\* The effect is passive: React runs it after the render has returned, and
\* until then the wrappers read the callbacks of the render before. It is
\* scheduled when one of the callbacks differs from those of the render before
\* (its dependencies), that is, while the references differ from the callbacks
\* passed last.
PrimitiveEffectPending(w) == w.callbackRefs # w.obs.passed

\* React runs a pending passive effect before it renders or commits again
flushPrimitiveEffect(w) ==
  IF PrimitiveEffectPending(w) THEN assignPrimitiveCallbackRefs(w, w.obs.passed)
  ELSE w

\* slip: the unmount effect does nothing
primitiveUnmount_nothing(w) == w

\* the unmount effect: debounce.cancel()
primitiveUnmount(w) == debounceCancel(w)

\* usePrimitiveDebounce with an owner that passes callbacks of its own; it
\* replaces its leading and trailing callbacks together, as those of
\* useDebouncedAsyncCall are (both depend on call), and its cancel callback
\* on its own
PrimitiveCallbacks == {c \in Callbacks : c.trigger = InitCallbacks.trigger /\ c.leading = c.trailing}

PrimitiveTrigger(args) ==
  /\ prim.type = "waiting" => prim.count < MaxCount
  /\ LET w0 == StartOp("trigger", args)
     IN Commit(debounceTrigger([w0 EXCEPT !.obs.lastArgs = args, !.obs.sinceLast = 0,
                                          !.obs.triggers = IF obs.open THEN @ + 1 ELSE 1],
                               args))

PrimitiveCancel ==
  LET w0 == StartOp("cancel", 0)
  IN Commit(debounceCancel([w0 EXCEPT !.obs = ObsClose(@)]))

PrimitiveFlush == Commit(debounceFlush(StartOp("flush", 0)))

PrimitiveTimerExpire(id) ==
  /\ timers[id] = 0
  /\ LET w0 == StartOp("timer", id)
     IN Commit(debounceFlush([w0 EXCEPT !.timers[id] = Unset]))

\* the owner renders with other callbacks: the hook function runs and the
\* effect that assigns the references is scheduled, not run
PrimitiveRerender(options) ==
  /\ options # obs.passed
  /\ LET w0 == flushPrimitiveEffect(StartOp("render", 0))
     IN Commit([w0 EXCEPT !.obs.passed = options])

\* React runs the scheduled effect
PrimitiveEffect ==
  /\ callbackRefs # obs.passed
  /\ Commit(flushPrimitiveEffect(StartOp("effect", 0)))

\* the component unmounts (and, remounted by StrictMode, may do so again); an
\* effect still pending runs before the cleanups
PrimitiveUnmount ==
  LET w0 == flushPrimitiveEffect(StartOp("unmount", 0))
  IN Commit(primitiveUnmount([w0 EXCEPT !.obs = ObsClose(@)]))

InitPrimitive == Init /\ ~shouldCall

NextPrimitive ==
  \/ \E args \in Args : PrimitiveTrigger(args)
  \/ PrimitiveCancel
  \/ PrimitiveFlush
  \/ \E id \in TimerIds : PrimitiveTimerExpire(id)
  \/ Tick
  \/ \E options \in PrimitiveCallbacks : PrimitiveRerender(options)
  \/ PrimitiveEffect
  \/ PrimitiveUnmount

SpecPrimitive == InitPrimitive /\ [][NextPrimitive]_vars

\* C39: unmounting a component that uses usePrimitiveDebounce cancels the
\* debounce: the unmount invokes the cancel callback exactly once, the one the
\* owner passed last, and neither the leading nor the trailing callback, and it
\* leaves no burst and no timer.
C39_UnmountCancelsOnce ==
  obs.op = "unmount" =>
    /\ obs.cancelCb = 1 /\ obs.cancelBy = obs.passed.cancel
    /\ obs.lead = 0 /\ obs.trail = 0 /\ obs.func = 0
    /\ prim.type = "standby" /\ NoTimerScheduled(timers)

\* the component unmounted in the middle of a burst
C39_Witness ==
  /\ obs.op = "unmount" /\ obs.wasOpen
  /\ obs.cancelCb = 1 /\ prim.type = "standby"

\* ---------------------------------------------------------------- useDebouncedAsyncCall on Debounce
resetStart(w, result) ==
  dispatchStart(debounceCancel(w), Act("reset", FALSE, result))

asyncCallUnmountStart(w) ==
  IF w.cancelAsyncCallRef # Undefined
    THEN [w EXCEPT !.promises = cancelAsyncCall(@, w.cancelAsyncCallRef),
                   !.cancelAsyncCallRef = Undefined]
    ELSE w

TriggerStart(args) ==
  /\ ~error
  /\ prim.type = "standby" => Cardinality(promises) + CallsPerBurst <= MaxPromises
  /\ prim.type = "waiting" => prim.count < MaxCount
  /\ LET w0 == StartOp("trigger", args)
     IN Commit(debounceTrigger([w0 EXCEPT !.obs.lastArgs = args, !.obs.sinceLast = 0,
                                          !.obs.triggers = IF obs.open THEN @ + 1 ELSE 1],
                               args))

CancelStart ==
  /\ ~error
  /\ LET w0 == StartOp("cancel", 0)
     IN Commit(debounceCancel([w0 EXCEPT !.obs = ObsClose(@)]))

ResetStart(result) ==
  /\ ~error
  /\ LET w0 == StartOp("reset", result)
     IN Commit(resetStart([w0 EXCEPT !.obs = ObsClose(@)], result))

FlushStart ==
  /\ ~error
  /\ Commit(debounceFlush(StartOp("flush", 0)))

TimerExpireStart(id) ==
  /\ ~error
  /\ timers[id] = 0
  /\ LET w0 == StartOp("timer", id)
     IN Commit(debounceFlush([w0 EXCEPT !.timers[id] = Unset]))

FulfillStart(p, result) ==
  /\ ~error
  /\ p \in promises
  /\ LET w0 == StartOp("fulfill", result)
         w1 == [Settle(w0, p) EXCEPT !.obs.staleSettle = p.superseded,
                                     !.obs.deadSettle = p.cancelled]
     IN Commit(IF p.cancelled THEN w1 ELSE onFulfilledStart(w1, result))

RejectStart(p) ==
  /\ ~error
  /\ p \in promises
  /\ LET w0 == StartOp("reject", 0)
         w1 == [Settle(w0, p) EXCEPT !.obs.staleSettle = p.superseded,
                                     !.obs.deadSettle = p.cancelled]
     IN Commit(IF p.cancelled THEN w1 ELSE onRejectedStart(w1))

\* the component unmounts: what is dispatched from now on is dropped; the
\* cleanups run in the order of the effects, that of usePrimitiveDebounce first
UnmountStart ==
  /\ ~error
  /\ ~isUnmounted
  /\ LET w0 == StartOp("unmount", 0)
     IN Commit(asyncCallUnmountStart(primitiveUnmount(
                 [w0 EXCEPT !.isUnmounted = TRUE, !.obs = ObsClose(@)])))

InitStart ==
  /\ prim = Standby
  /\ isUnmounted = FALSE
  /\ timers = [i \in TimerIds |-> Unset]
  /\ state = [type |-> "standby", result |-> InitResult]
  /\ error = FALSE
  /\ prevArgs = Undefined
  /\ cancelAsyncCallRef = Undefined
  /\ promises = {}
  /\ reenter = NoReentry
  /\ callbackRefs = HookCallbacks
  /\ leading \in BOOLEAN
  /\ trailing \in BOOLEAN
  /\ maxWait \in {Undefined, MaxWaitVal}
  /\ shouldCall = FALSE
  /\ obs = InitObs

NextStart ==
  \/ \E args \in Args : TriggerStart(args)
  \/ CancelStart
  \/ \E result \in Values : ResetStart(result)
  \/ FlushStart
  \/ \E id \in TimerIds : TimerExpireStart(id)
  \/ Tick
  \/ \E p \in promises : \E result \in Values : FulfillStart(p, result)
  \/ \E p \in promises : RejectStart(p)
  \/ UnmountStart

SpecStart == InitStart /\ [][NextStart]_vars

====
